---- MODULE Spec2Model ----
(***************************************************************************)
(* Batch benchmark supervisor and results aggregation of pluginperf:       *)
(*   tools/test_all_plugins.py    the plugin batch (polling supervisor)    *)
(*   tools/test_preset_folder.py  the preset batch (subprocess.run)        *)
(*   tools/validate_presets.py    the validation sweep                     *)
(*   tools/run_measure.py         the wrapper of a single measurement      *)
(* One behaviour is one run of one of the scripts, from the start-up       *)
(* checks of its main to its process exit.                                 *)
(*                                                                         *)
(* Time is counted in poll intervals: one tick is the 0.5 s of             *)
(* time.sleep(0.5) in test_plugin.  Subjects are named 1..n, in the sorted *)
(* order in which discovery returns them.                                  *)
(***************************************************************************)
EXTENDS Integers, Sequences, FiniteSets, TLC

VARIABLES
    pipeline,     \* which script runs: "plugins", "presets", "validate", "measure"
    env,          \* what the start-up checks find on the file system
    progress,     \* test_all_plugins: the progress figures of the loop head
    output,       \* validate_presets: result.stdout + result.stderr of the call
    discovered,   \* the paths discovery returned, <<>> before
    dying,        \* test_all_plugins: the subjects whose child was sent the kill
                  \* and has not ended yet
    skip_errors,  \* args.skip_errors
    subjects,     \* the discovered list (plugins / presets), sorted
    i,            \* 1-based index of the loop iteration
    pc,           \* position of main: "start", "loop", "call", "report", "exit"
    results,      \* the accumulator of the running script
    files,        \* contents of the output files that can still be read
    writer,       \* test_all_plugins: per output file, the subject whose child
                  \* wrote it, 0 when no child of this batch did
    backlog,      \* test_all_plugins: the output the current child cannot write
                  \* because its pipes are full, in pipe buffers
    sup,          \* per subject: state of its supervisor call
    spc,          \* position inside test_plugin while Running
    clock,        \* ticks since start_time, while the polling loop of test_plugin runs
    child,        \* the current child process: "none", "alive", "exited", "killed"
    overran,      \* the current child ended by itself later than the timeout
    stderr,       \* the stderr text communicate() returned, "" before
    returncode,   \* per subject: process.returncode of its child, -1 while unset
    output_files, \* test_preset_folder: the output paths collected so far
    ret,          \* <<>> or <<return value>> of the current supervisor call
    spawns,       \* per subject: how many children were spawned for it
    returned,     \* per subject: how many outcomes its supervisor returned
    exit_code,    \* exit code of the script, -1 while it runs
    reports,      \* the reports written so far, in order
    propagated    \* an exception left the supervisor uncaught

vars == <<pipeline, env, writer, backlog, discovered, dying, progress, output, skip_errors, subjects, i, pc, results, files, sup, spc,
          clock, child, overran, stderr, returncode, output_files, ret, spawns, returned,
          exit_code, reports, propagated>>

----------------------------------------------------------------------------
(* Bounds of the model *)

MaxSubjects == 2
MaxSleepTicks == 2
MaxFiles == 3           \* output files of a merge
MaxElapsed == 3         \* seconds the batch has run at a loop head
MaxPlugins == 4         \* plugins of a batch whose loop heads are looked at
MaxRows == 2            \* data rows of an output file that is summarised

(* Program constants *)

TIMEOUT == 300          \* seconds, test_plugin: if elapsed > 300
TicksPerSecond == 2     \* time.sleep(0.5)

TimeoutTicks == TIMEOUT * TicksPerSecond

----------------------------------------------------------------------------
(* Values *)

\* A path of the output directory: whether it exists, whether open() works
\* on it, and the rows csv.reader gives for it (the header row first, every
\* field a text).
Missing == [exists |-> FALSE, readable |-> FALSE, rows |-> <<>>]
Unreadable == [exists |-> TRUE, readable |-> FALSE, rows |-> <<>>]
File(rows) == [exists |-> TRUE, readable |-> TRUE, rows |-> rows]

Header == <<"plugin_name", "format", "channels", "bit_depth", "dsp_load_pct", "cv_pct">>

Row(dsp_load_pct, cv_pct) == <<"P", "VST3", "2", "32f", dsp_load_pct, cv_pct>>

GoodRow1 == Row("10", "2")
GoodRow2 == Row("20", "4")
BadRow == Row("n/a", "2")                   \* a field that is no number

\* What a child may leave at its output path: a header only, rows that do
\* not parse, or usable rows.
WrittenFiles ==
    { File(<<Header>>), File(<<Header, BadRow>>), File(<<Header, GoodRow1, GoodRow2>>) }

StderrTexts == { "", "stderr text" }
ExcKinds == { "OSError", "ValueError" }     \* raised by Popen / communicate / run
ExcText == "exception text"                 \* str(e)

None == [none |-> TRUE]

\* time.time() - batch_start_time at a loop head: the wall clock may have
\* been set back since the batch started
ElapsedValues == -1..MaxElapsed

\* no progress figures: before the first loop head and inside test_plugin
NoProgress == [elapsed |-> 0, eta_seconds |-> <<0, 1>>, shown |-> FALSE]

Range(seq) == { seq[k] : k \in 1..Len(seq) }

\* the texts float() accepts, and the numbers it gives for them
NumericTexts == { "2", "4", "10", "20" }

float(text) ==
    CASE text = "2" -> 2
      [] text = "4" -> 4
      [] text = "10" -> 10
      [] text = "20" -> 20

\* csv.DictReader: the rows after the first as dicts keyed by the fields of
\* the first row; a column named twice keeps its last field, a field the row
\* is too short for is None
NoneField == "None"

ColumnOf(fieldnames, c) ==
    CHOOSE j \in 1..Len(fieldnames) :
        fieldnames[j] = c /\ \A k \in (j + 1)..Len(fieldnames) : fieldnames[k] # c

RowDict(fieldnames, row) ==
    [c \in Range(fieldnames) |->
        IF ColumnOf(fieldnames, c) <= Len(row)
        THEN row[ColumnOf(fieldnames, c)] ELSE NoneField]

DictReader(rows) ==
    IF rows = <<>> THEN <<>>
    ELSE [k \in 1..(Len(rows) - 1) |-> RowDict(rows[1], rows[k + 1])]

\* sum(float(r[field]) for r in rows)
RECURSIVE SumOf(_, _)
SumOf(rows, field) ==
    IF rows = <<>> THEN 0
    ELSE float(Head(rows)[field]) + SumOf(Tail(rows), field)

\* dict[k] = v
DictSet(d, k, v) == [x \in (DOMAIN d) \cup {k} |-> IF x = k THEN v ELSE d[x]]

EmptyDict == [x \in {} |-> 0]

Subjects(n) == [k \in 1..n |-> k]

----------------------------------------------------------------------------
(* test_all_plugins.py *)

\* faulty variant: the handler is written "except OSError"
ExceptException_OSError(kind) == kind = "OSError"

\* except Exception: every exception class the child handling raises derives
\* from Exception.
ExceptException(kind) == kind \in { "OSError", "ValueError", "TimeoutExpired" }

\* faulty variant: the comparison is >= instead of >
TimedOut_ge(elapsed) == elapsed >= TimeoutTicks

\* if elapsed > 300
TimedOut(elapsed) == elapsed > TimeoutTicks

\* faulty variant: no sentinel for an empty stderr
ErrorMsg_raw(text) == text

\* error_msg = stderr if stderr else "Unknown error"
ErrorMsg(text) == IF text # "" THEN text ELSE "Unknown error"

\* the value test_plugin returns once communicate() has returned
Classify(code, text) ==
    IF code = 0 THEN [ok |-> TRUE, err |-> "None"]
    ELSE [ok |-> FALSE, err |-> ErrorMsg(text)]

\* faulty variant: mean_cv is taken from the dsp_load_pct column
Summary_onecolumn(rows) ==
    [none |-> FALSE,
     plugin_name |-> rows[1]["plugin_name"],
     format |-> rows[1]["format"],
     channels |-> rows[1]["channels"],
     bit_depth |-> rows[1]["bit_depth"],
     buffer_count |-> Len(rows),
     mean_dsp_load |-> <<SumOf(rows, "dsp_load_pct"), Len(rows)>>,
     mean_cv |-> <<SumOf(rows, "dsp_load_pct"), Len(rows)>>,
     rows |-> rows]

\* the dict load_results builds from the rows of the DictReader; a mean is
\* kept as the exact pair <<sum, count>>
Summary(rows) ==
    [none |-> FALSE,
     plugin_name |-> rows[1]["plugin_name"],
     format |-> rows[1]["format"],
     channels |-> rows[1]["channels"],
     bit_depth |-> rows[1]["bit_depth"],
     buffer_count |-> Len(rows),
     mean_dsp_load |-> <<SumOf(rows, "dsp_load_pct"), Len(rows)>>,
     mean_cv |-> <<SumOf(rows, "cv_pct"), Len(rows)>>,
     rows |-> rows]

\* an exception inside the try of load_results: a KeyError for a column the
\* header does not name, a ValueError or TypeError from float()
SummaryRaises(rows) ==
    \/ \E k \in 1..Len(rows) :
          \E c \in {"dsp_load_pct", "cv_pct"} :
              c \notin DOMAIN rows[k] \/ rows[k][c] \notin NumericTexts
    \/ ~({"plugin_name", "format", "channels", "bit_depth"} \subseteq DOMAIN rows[1])

\* faulty variant: any file that exists counts as results
load_results_exists(f) ==
    IF ~f.exists THEN None
    ELSE [none |-> FALSE, buffer_count |-> 0,
          mean_dsp_load |-> <<0, 0>>, mean_cv |-> <<0, 0>>, rows |-> <<>>]

\* load_results(csv_file): None, or the summary of the rows
load_results(f) ==
    IF ~f.exists THEN None
    ELSE IF ~f.readable THEN None
    ELSE IF DictReader(f.rows) = <<>> THEN None
    ELSE IF SummaryRaises(DictReader(f.rows)) THEN None
    ELSE Summary(DictReader(f.rows))

cur == subjects[i]

\* A fraction is the pair <<numerator, denominator>>, the denominator > 0.

\* avg_time_per_plugin = elapsed / i if i > 1 else 0
avg_time_per_plugin(elapsed, k) ==
    IF k > 1 THEN <<elapsed, k>> ELSE <<0, 1>>

\* remaining_plugins = len(plugins) - i
remaining_plugins(n, k) == n - k

\* faulty variant: the guard "if avg_time_per_plugin > 0" is missing
eta_seconds_unguarded(avg, remaining) == <<avg[1] * remaining, avg[2]>>

\* eta_seconds = avg_time_per_plugin * remaining_plugins
\*               if avg_time_per_plugin > 0 else 0
eta_seconds(avg, remaining) ==
    IF avg[1] > 0 THEN <<avg[1] * remaining, avg[2]>> ELSE <<0, 1>>

\* plugin.stem, character by character
plugin_stem(name) ==
    CASE name = "Amp.vst3" -> <<"A", "m", "p">>
      [] name = "Bass.VST3" -> <<"B", "a", "s", "s">>
      [] name = "comp.vst3" -> <<"c", "o", "m", "p">>
      [] name = "delay.vst3" -> <<"d", "e", "l", "a", "y">>
      [] name = "eq.vst3" -> <<"e", "q">>
      [] name = "my plugin.vst3" -> <<"m", "y", " ", "p", "l", "u", "g", "i", "n">>
      [] name = "my-plugin.vst3" -> <<"m", "y", "-", "p", "l", "u", "g", "i", "n">>
      [] name = "my_plugin.vst3" -> <<"m", "y", "_", "p", "l", "u", "g", "i", "n">>

\* c.isalnum(), for the characters of the names above
isalnum(c) ==
    c \in {"A", "B", "a", "c", "d", "e", "g", "i", "l", "m", "n", "o", "p", "q",
           "s", "u", "y"}

\* "".join(c if c.isalnum() or c in ('-', '_') else '_' for c in plugin.stem)
safe_name(text) ==
    [k \in 1..Len(text) |->
        IF isalnum(text[k]) \/ text[k] \in {"-", "_"} THEN text[k] ELSE "_"]

\* output_file = output_dir / f"{safe_name}.csv", within output_dir
output_file(plugin) == safe_name(plugin_stem(plugin)) \o <<".csv">>

\* the output files of the plugins k.. of a list
Paths(list, k) == { output_file(list[j]) : j \in k..Len(list) }

\* the output file of subject s
OutputOf(s) == output_file(discovered[s])

\* faulty variant: the name is put in front, list.insert(0, name)
append_front(list, name) == <<name>> \o list

\* list.append(name)
append(list, name) == Append(list, name)

\* for i, plugin in enumerate(plugins, 1): elapsed, ETA and the progress
\* line, results['tested'].append(...) and the call of test_plugin up to the
\* try.  The output directory is not touched: what lies at an output path
\* stays there.  Only the output files of this and the later plugins are
\* read from here on, so they are the paths kept in files.
Plugins_iterate ==
    /\ pipeline = "plugins" /\ pc = "loop" /\ i <= Len(subjects)
    /\ \E elapsed \in ElapsedValues :
          progress' =
             [elapsed |-> elapsed,
              eta_seconds |->
                 eta_seconds(avg_time_per_plugin(elapsed, i),
                             remaining_plugins(Len(subjects), i)),
              shown |-> i > 1]
    /\ results' = [results EXCEPT !.tested = append(@, cur)]
    /\ files' = [p \in Paths(discovered, i) |->
                    IF p \in DOMAIN files THEN files[p] ELSE Missing]
    /\ writer' = [p \in Paths(discovered, i) |->
                     IF p \in DOMAIN writer THEN writer[p] ELSE 0]
    /\ pc' = "call"
    /\ spc' = "popen"
    /\ UNCHANGED <<pipeline, env, backlog, discovered, dying, output, skip_errors, subjects, i, sup, clock, child,
                   overran, stderr, returncode, output_files, ret, spawns, returned,
                   exit_code, reports, propagated>>

\* an exception inside the try of test_plugin: return False, str(e)
Raise(kind, s) ==
    IF ExceptException(kind)
    THEN /\ ret' = << [ok |-> FALSE, err |-> ExcText] >>
         /\ sup' = [sup EXCEPT ![s] = "SpawnFailed"]
         /\ returned' = [returned EXCEPT ![s] = @ + 1]
         /\ spc' = "done"
         /\ propagated' = propagated
    ELSE /\ propagated' = TRUE
         /\ spc' = "raised"
         /\ UNCHANGED <<ret, sup, returned>>

\* The pipes of stdout=subprocess.PIPE, stderr=subprocess.PIPE hold this
\* much output that nobody reads, in pipe buffers.
PipeCapacity == 1

\* what a child that writes v pipe buffers of output cannot write while
\* nothing is read from its pipes
Backlog(v) == IF v > PipeCapacity THEN v - PipeCapacity ELSE 0

\* process = subprocess.Popen(...); start_time = time.time().  The child
\* writes its output to the pipes as far as they take it.
test_plugin_spawn ==
    /\ pipeline = "plugins" /\ pc = "call" /\ spc = "popen"
    /\ \/ /\ child' = "alive"
          /\ \E v \in 0..env.verbosity : backlog' = Backlog(v)
          /\ spawns' = [spawns EXCEPT ![cur] = @ + 1]
          /\ sup' = [sup EXCEPT ![cur] = "Running"]
          /\ spc' = "poll"
          /\ UNCHANGED <<ret, returned, propagated>>
       \/ /\ \E kind \in ExcKinds : Raise(kind, cur)
          /\ UNCHANGED <<child, spawns, backlog>>
    /\ progress' = NoProgress    \* the progress line is printed and not read again
    /\ UNCHANGED <<pipeline, env, writer, discovered, dying, output, skip_errors, subjects, i, pc, results, files,
                   clock, overran, stderr, returncode, output_files, exit_code,
                   reports>>

\* faulty variant: the loop is "while True"
poll_is_None_always(c) == TRUE

\* process.poll() is None: the child has not been seen to exit
poll_is_None(c) == c # "exited"

\* while process.poll() is None: ... if elapsed > 300: kill, return.
\* process.kill() sends the signal and returns; test_plugin does not wait
\* for the child.
test_plugin_poll ==
    /\ pipeline = "plugins" /\ pc = "call" /\ spc = "poll"
    /\ IF ~poll_is_None(child)
       THEN /\ spc' = "communicate"
            /\ clock' = 0        \* the loop is left: the time is not compared again
            /\ UNCHANGED <<dying, child, ret, sup, returned>>
       ELSE IF TimedOut(clock)
       THEN /\ child' = "killed"
            /\ dying' = dying \cup {cur}
            /\ ret' = << [ok |-> FALSE, err |-> "Timeout"] >>
            /\ sup' = [sup EXCEPT ![cur] = "TimedOut"]
            /\ returned' = [returned EXCEPT ![cur] = @ + 1]
            /\ spc' = "done"
            /\ UNCHANGED clock
       ELSE /\ spc' = "sleep"
            /\ UNCHANGED <<dying, clock, child, ret, sup, returned>>
    /\ UNCHANGED <<pipeline, env, writer, backlog, discovered, progress, output, skip_errors, subjects, i, pc, results, files,
                   overran, stderr, returncode, output_files, spawns,
                   exit_code, reports, propagated>>

\* faulty variant: start_time is taken anew in every iteration of the loop
Elapsed_restarted(ticks, d) == 0

\* elapsed = current_time - start_time, after a sleep of d ticks
Elapsed(ticks, d) == ticks + d

\* faulty variant: the heartbeat of the polling loop is also written to a
\* file of the output directory
test_plugin_sleep_logged ==
    /\ pipeline = "plugins" /\ pc = "call" /\ spc = "sleep"
    /\ \E d \in 1..MaxSleepTicks : clock' = clock + d
    /\ spc' = "poll"
    /\ reports' = Append(reports, [kind |-> "heartbeat"])
    /\ UNCHANGED <<pipeline, env, writer, backlog, discovered, dying, progress, output, skip_errors, subjects, i, pc,
                   results, files, sup, child, overran, stderr, returncode,
                   output_files, ret, spawns, returned, exit_code, propagated>>

\* time.sleep(0.5): at least one tick passes
test_plugin_sleep ==
    /\ pipeline = "plugins" /\ pc = "call" /\ spc = "sleep"
    /\ \E d \in 1..MaxSleepTicks : clock' = Elapsed(clock, d)
    /\ spc' = "poll"
    /\ UNCHANGED <<pipeline, env, writer, backlog, discovered, dying, progress, output, skip_errors, subjects, i, pc, results, files,
                   sup, child, overran, stderr, returncode, output_files, ret,
                   spawns, returned, exit_code, reports, propagated>>

\* The child ends by itself, at any moment of the polling loop, with any exit
\* code; it may have written its output file, whatever its exit code.  A
\* child that has output left to write waits for room in its pipes: the
\* pipes are read by communicate() only, after the polling loop.
child_exit ==
    /\ pipeline = "plugins" /\ pc = "call" /\ child = "alive"
    /\ spc \in {"poll", "sleep"}
    /\ backlog = 0
    /\ child' = "exited"
    /\ overran' = (clock > TimeoutTicks)
    /\ \E code \in 0..1 : returncode' = [returncode EXCEPT ![cur] = code]
    /\ \/ UNCHANGED <<files, writer>>
       \/ /\ \E f \in WrittenFiles : files' = [files EXCEPT ![OutputOf(cur)] = f]
          /\ writer' = [writer EXCEPT ![OutputOf(cur)] = cur]
    /\ UNCHANGED <<pipeline, env, backlog, discovered, dying, progress, output, skip_errors, subjects, i, pc, results, sup, spc,
                   clock, stderr, output_files, ret, spawns, returned,
                   exit_code, reports, propagated>>

\* A child that was sent the kill ends, at any later moment.
killed_child_ends ==
    /\ pipeline = "plugins"
    /\ \E s \in dying : dying' = dying \ {s}
    /\ UNCHANGED <<pipeline, env, writer, backlog, discovered, progress, output, skip_errors, subjects, i, pc, results,
                   files, sup, spc, clock, child, overran, stderr, returncode,
                   output_files, ret, spawns, returned, exit_code, reports,
                   propagated>>

\* stdout, stderr = process.communicate(); if process.returncode == 0: ...
test_plugin_communicate ==
    /\ pipeline = "plugins" /\ pc = "call" /\ spc = "communicate"
    /\ \/ \E text \in StderrTexts :
            /\ stderr' = text
            /\ ret' = << Classify(returncode[cur], text) >>
            /\ sup' = [sup EXCEPT ![cur] = "Completed"]
            /\ returned' = [returned EXCEPT ![cur] = @ + 1]
            /\ spc' = "done"
            /\ UNCHANGED propagated
       \/ /\ \E kind \in ExcKinds : Raise(kind, cur)
          /\ UNCHANGED stderr
    /\ UNCHANGED <<pipeline, env, writer, backlog, discovered, dying, progress, output, skip_errors, subjects, i, pc, results, files,
                   clock, child, overran, returncode, output_files, spawns,
                   exit_code, reports>>

\* faulty variant: the loop breaks on a failure whatever skip_errors says
Break_always(skip) == TRUE

\* if not args.skip_errors: break
Break(skip) == ~skip

\* faulty variant: the loop takes the same subject again
NextSubject_same(k) == k

\* the for loop takes the next subject
NextSubject(k) == k + 1

\* faulty variant: the else branch of "if data:" is missing
Record_noelse(res, name, r, data) ==
    IF r.ok
    THEN IF ~data.none
         THEN [res EXCEPT !.successful = DictSet(@, name, data)]
         ELSE res
    ELSE [res EXCEPT !.failed = DictSet(@, name, r.err)]

\* if success: data = load_results(...); if data: ... else: ... else: ...
\* gives the accumulator after the outcome r of subject `name` is recorded
Record(res, name, r, data) ==
    IF r.ok
    THEN IF ~data.none
         THEN [res EXCEPT !.successful = DictSet(@, name, data)]
         ELSE [res EXCEPT !.failed = DictSet(@, name, "Could not parse results")]
    ELSE [res EXCEPT !.failed = DictSet(@, name, r.err)]

\* faulty variant: the break follows every recorded failure
Stops_recorded(r, data, skip) == (~r.ok \/ data.none) /\ Break(skip)

\* the break stands in the else branch of "if success:" only
Stops(r, data, skip) == ~r.ok /\ Break(skip)

\* main, from "success, error = test_plugin(...)" to the end of the loop body
Plugins_record ==
    /\ pipeline = "plugins" /\ pc = "call" /\ spc = "done" /\ ret # <<>>
    /\ results' = Record(results, cur, ret[1], load_results(files[OutputOf(cur)]))
    /\ IF Stops(ret[1], load_results(files[OutputOf(cur)]), skip_errors)
       THEN pc' = "report" /\ i' = i
       ELSE pc' = "loop" /\ i' = NextSubject(i)
    \* the locals of test_plugin are gone
    /\ spc' = "idle" /\ ret' = <<>>
    /\ clock' = 0 /\ overran' = FALSE /\ child' = "none" /\ stderr' = ""
    /\ backlog' = 0
    /\ UNCHANGED <<pipeline, env, writer, discovered, dying, progress, output, skip_errors, subjects, files, sup, returncode,
                   output_files, spawns, returned, exit_code, reports,
                   propagated>>

\* the for loop is exhausted
Plugins_loop_end ==
    /\ pipeline = "plugins" /\ pc = "loop" /\ i > Len(subjects)
    /\ pc' = "report"
    /\ UNCHANGED <<pipeline, env, writer, backlog, discovered, dying, progress, output, skip_errors, subjects, i, results, files, sup,
                   spc, clock, child, overran, stderr, returncode, output_files, ret,
                   spawns, returned, exit_code, reports, propagated>>

\* faulty variant: the exit code looks at the successes
Plugins_exit_code_successful(r) == IF DOMAIN r.successful # {} THEN 0 ELSE 1

\* return 0 if not results['failed'] else 1
Plugins_exit_code(r) == IF DOMAIN r.failed = {} THEN 0 ELSE 1

\* generate_summary_report(output_dir, results); return ...
Plugins_report ==
    /\ pipeline = "plugins" /\ pc = "report"
    /\ reports' = Append(reports,
                    [kind |-> "summary",
                     total |-> Len(results.tested),
                     successful |-> Cardinality(DOMAIN results.successful),
                     failed |-> Cardinality(DOMAIN results.failed)])
    /\ exit_code' = Plugins_exit_code(results)
    /\ pc' = "exit"
    /\ UNCHANGED <<pipeline, env, writer, backlog, discovered, dying, progress, output, skip_errors, subjects, i, results, files, sup,
                   spc, clock, child, overran, stderr, returncode, output_files, ret,
                   spawns, returned, propagated>>

----------------------------------------------------------------------------
(* test_preset_folder.py *)

\* What the run of plugperf under subprocess.run(..., timeout=300) comes to:
\* it ends with an exit code and a stderr text, or subprocess.run raises.
RunResults ==
    { [raised |-> "",  returncode |-> c, loaded |-> l] : c \in 0..1, l \in BOOLEAN }
    \cup { [raised |-> k, returncode |-> -1, loaded |-> FALSE] :
              k \in ExcKinds \cup {"TimeoutExpired"} }

\* except subprocess.TimeoutExpired: ... except Exception: ...
RunBenchmarkCatches(kind) == kind = "TimeoutExpired" \/ ExceptException(kind)

\* the value run_benchmark returns when subprocess.run returned `result`
\* ("Loaded preset:" in result.stderr only chooses between two messages)
RunBenchmarkResult(result) ==
    IF result.returncode # 0 THEN FALSE
    ELSE IF result.loaded THEN TRUE
    ELSE TRUE

\* for idx, preset_path in enumerate(presets, 1): ... output_files.append(...)
Presets_iterate ==
    /\ pipeline = "presets" /\ pc = "loop" /\ i <= Len(subjects)
    /\ output_files' = Append(output_files, cur)
    /\ pc' = "call"
    /\ spc' = "run"
    /\ UNCHANGED <<pipeline, env, writer, backlog, discovered, dying, progress, output, skip_errors, subjects, i, results, files, sup,
                   clock, child, overran, stderr, returncode, ret, spawns, returned,
                   exit_code, reports, propagated>>

\* run_benchmark(...): one call of subprocess.run and its classification.
\* subprocess.run has waited for the child (and killed it on its timeout)
\* when it returns or raises TimeoutExpired; a child that was started may
\* have written its output file.
run_benchmark ==
    /\ pipeline = "presets" /\ pc = "call" /\ spc = "run"
    /\ \E result \in RunResults :
         /\ IF result.raised = ""
            THEN /\ ret' = << [ok |-> RunBenchmarkResult(result), err |-> ""] >>
                 /\ returncode' = [returncode EXCEPT ![cur] = result.returncode]
                 /\ sup' = [sup EXCEPT ![cur] = "Completed"]
                 /\ returned' = [returned EXCEPT ![cur] = @ + 1]
                 /\ spc' = "done"
                 /\ UNCHANGED propagated
            ELSE IF RunBenchmarkCatches(result.raised)
            THEN /\ ret' = << [ok |-> FALSE, err |-> ""] >>
                 /\ sup' = [sup EXCEPT ![cur] =
                              IF result.raised = "TimeoutExpired"
                              THEN "TimedOut" ELSE "SpawnFailed"]
                 /\ returned' = [returned EXCEPT ![cur] = @ + 1]
                 /\ spc' = "done"
                 /\ UNCHANGED <<returncode, propagated>>
            ELSE /\ propagated' = TRUE
                 /\ spc' = "raised"
                 /\ UNCHANGED <<ret, sup, returncode, returned>>
         /\ IF result.raised \in ExcKinds
            THEN UNCHANGED <<spawns, files>>
            ELSE /\ spawns' = [spawns EXCEPT ![cur] = @ + 1]
                 /\ \/ UNCHANGED files
                    \/ \E f \in WrittenFiles : files' = DictSet(files, cur, f)
    /\ UNCHANGED <<pipeline, env, writer, backlog, discovered, dying, progress, output, skip_errors, subjects, i, pc, results, clock,
                   child, overran, stderr, output_files, exit_code, reports>>

\* main, from "if success:" to the end of the loop body
Presets_record ==
    /\ pipeline = "presets" /\ pc = "call" /\ spc = "done" /\ ret # <<>>
    /\ IF ret[1].ok
       THEN /\ results' = [results EXCEPT !.success = @ + 1]
            /\ pc' = "loop" /\ i' = NextSubject(i)
            /\ UNCHANGED exit_code
       ELSE /\ results' = [results EXCEPT
                              !.failed = @ + 1,
                              !.failed_presets = Append(@, cur)]
            /\ IF Break(skip_errors)
               THEN pc' = "exit" /\ exit_code' = 1 /\ i' = i     \* return 1
               ELSE pc' = "loop" /\ i' = NextSubject(i) /\ UNCHANGED exit_code
    /\ spc' = "idle" /\ ret' = <<>>
    /\ UNCHANGED <<pipeline, env, writer, backlog, discovered, dying, progress, output, skip_errors, subjects, files, sup, clock, child,
                   overran, stderr, returncode, output_files, spawns, returned,
                   reports, propagated>>

Presets_loop_end ==
    /\ pipeline = "presets" /\ pc = "loop" /\ i > Len(subjects)
    /\ pc' = "report"
    /\ UNCHANGED <<pipeline, env, writer, backlog, discovered, dying, progress, output, skip_errors, subjects, i, results, files, sup,
                   spc, clock, child, overran, stderr, returncode, output_files, ret,
                   spawns, returned, exit_code, reports, propagated>>

\* The output path of preset s is known by s; its stem is
\* f"{preset_path.stem}_benchmark".
stem(s) ==
    CASE s = 1 -> "lead_benchmark"
      [] s = 2 -> "my_benchmark_test_benchmark"
      [] s = 3 -> "pad_benchmark"
      [] s = 4 -> "reese_benchmark"
      [] OTHER -> "sub_benchmark"

\* faulty variant: only the suffix is cut off
replace_benchmark_suffix(text) ==
    CASE text = "lead_benchmark" -> "lead"
      [] text = "my_benchmark_test_benchmark" -> "my_benchmark_test"
      [] text = "pad_benchmark" -> "pad"
      [] text = "reese_benchmark" -> "reese"
      [] OTHER -> "sub"

\* text.replace("_benchmark", ""): every occurrence is removed
replace_benchmark(text) ==
    CASE text = "lead_benchmark" -> "lead"
      [] text = "my_benchmark_test_benchmark" -> "my_test"
      [] text = "pad_benchmark" -> "pad"
      [] text = "reese_benchmark" -> "reese"
      [] OTHER -> "sub"

\* faulty variant: the header row of a file is not skipped
DataRowsOf_all(rows) == rows

\* rows[1:]
DataRowsOf(rows) == Tail(rows)

\* open(csv_file, 'r') is not inside a try
OpenRaises(f) == ~f.readable

\* the loop of merge_csv_results over the remaining paths; header is <<>>
\* for None or <<the header row>>
RECURSIVE merge_loop(_, _, _, _)
merge_loop(paths, fs, header, all_rows) ==
    IF paths = <<>> THEN [raised |-> FALSE, all_rows |-> all_rows]
    ELSE LET csv_file == Head(paths)
         IN IF csv_file \notin DOMAIN fs \/ ~fs[csv_file].exists
            THEN merge_loop(Tail(paths), fs, header, all_rows)
            ELSE IF OpenRaises(fs[csv_file])
            THEN [raised |-> TRUE, all_rows |-> <<>>]
            ELSE LET rows == fs[csv_file].rows
                     first == header = <<>>
                     new_header == rows[1] \o <<"preset_name", "preset_category">>
                     preset_name == replace_benchmark(stem(csv_file))
                     data == DataRowsOf(rows)
                 IN IF rows = <<>>
                    THEN merge_loop(Tail(paths), fs, header, all_rows)
                    ELSE merge_loop(Tail(paths), fs,
                           IF first THEN <<new_header>> ELSE header,
                           (IF first THEN Append(all_rows, new_header) ELSE all_rows)
                           \o [k \in 1..Len(data) |-> data[k] \o <<preset_name, "">>])

\* merge_csv_results(output_files, merged_output): whether it raised, the
\* rows it wrote and the total it printed
merge_csv_results(paths, fs) ==
    LET m == merge_loop(paths, fs, <<>>, <<>>)
    IN [raised |-> m.raised,
        all_rows |-> m.all_rows,
        total |-> Len(m.all_rows) - 1]

\* return 0 if results['failed'] == 0 else 1
Presets_exit_code(r) == IF r.failed = 0 THEN 0 ELSE 1

\* success rate, merge_csv_results, generate_summary_report, return.  An
\* exception of merge_csv_results is caught nowhere: main ends with a
\* traceback and exit code 1, before anything is written.
Presets_report ==
    /\ pipeline = "presets" /\ pc = "report"
    /\ IF merge_csv_results(output_files, files).raised
       THEN /\ propagated' = TRUE
            /\ exit_code' = 1
            /\ UNCHANGED reports
       ELSE /\ reports' = reports \o
                  << [kind |-> "merged",
                      rows |-> merge_csv_results(output_files, files).all_rows,
                      total |-> merge_csv_results(output_files, files).total],
                     [kind |-> "summary",
                      total |-> results.total,
                      successful |-> results.success,
                      failed |-> results.failed] >>
            /\ exit_code' = Presets_exit_code(results)
            /\ UNCHANGED propagated
    /\ pc' = "exit"
    /\ UNCHANGED <<pipeline, env, writer, backlog, discovered, dying, progress, output, skip_errors, subjects, i, results, files, sup,
                   spc, clock, child, overran, stderr, returncode, output_files, ret,
                   spawns, returned>>

----------------------------------------------------------------------------
(* validate_presets.py *)

\* A text is the list of its lines, a line the list of its words (the words
\* stand one blank apart).
Text(word) == << <<word>> >>

\* the words int() accepts, which are the words \d+ matches
IntTexts == { "0", "12", "15" }

int(word) ==
    CASE word = "0" -> 0
      [] word = "12" -> 12
      [] word = "15" -> 15

Digits == "(\\d+)"

\* r'Applied (\d+) parameters' and r'Total parameters in preset: (\d+)'
AppliedPattern == <<"Applied", Digits, "parameters">>
TotalPattern == <<"Total", "parameters", "in", "preset:", Digits>>

LineApplied(n) == <<"Applied", n, "parameters">>
LineTotal(n) == <<"Total", "parameters", "in", "preset:", n>>
LineERROR == <<"ERROR", "text">>
LineFailed == <<"text", "Failed">>
LineOther == <<"text">>

\* what the verifier may print: stdout followed by stderr
VerifierOutputs ==
    { <<>>,
      <<LineOther>>,
      <<LineApplied("12"), LineTotal("15")>>,
      <<LineOther, LineApplied("12")>>,
      <<LineTotal("15"), LineApplied("0")>>,
      <<LineApplied("12"), LineApplied("15")>>,
      <<LineApplied("12"), LineERROR>>,
      <<LineTotal("15")>>,
      << <<"Applied", "many", "parameters">> >>,
      << <<"Applied", "12">>, <<"parameters">> >>,
      << <<"text", "Applied", "15", "parameters", "Total", "parameters", "in", "preset:", "12">> >>,
      << <<"Applied", "many", "parameters">>, LineERROR >>,
      <<LineFailed>>,
      <<LineERROR, LineOther, LineFailed, LineERROR, LineFailed>> }

\* the pattern matches the words of the line from place j on
MatchAt(pattern, line, j) ==
    /\ j + Len(pattern) - 1 <= Len(line)
    /\ \A k \in 1..Len(pattern) :
          IF pattern[k] = Digits
          THEN line[j + k - 1] \in IntTexts
          ELSE line[j + k - 1] = pattern[k]

\* the word of the group of the leftmost match in the line
GroupOf(pattern, line) ==
    LET j == CHOOSE m \in 1..Len(line) :
                MatchAt(pattern, line, m)
                /\ \A l \in 1..(m - 1) : ~MatchAt(pattern, line, l)
        g == CHOOSE k \in 1..Len(pattern) : pattern[k] = Digits
    IN line[j + g - 1]

\* re.search(pattern, output): <<>> for None, else <<match.group(1)>> of the
\* first match
RECURSIVE re_search(_, _)
re_search(pattern, out) ==
    IF out = <<>> THEN <<>>
    ELSE IF \E j \in 1..Len(Head(out)) : MatchAt(pattern, Head(out), j)
         THEN << GroupOf(pattern, Head(out)) >>
         ELSE re_search(pattern, Tail(out))

\* the lines of `out` that hold one of the words, in order
RECURSIVE LinesOf(_, _)
LinesOf(out, words) ==
    IF out = <<>> THEN <<>>
    ELSE IF Range(Head(out)) \cap words # {}
         THEN <<Head(out)>> \o LinesOf(Tail(out), words)
         ELSE LinesOf(Tail(out), words)

\* faulty variant: the slice is missing
FirstN_all(seq, n) == seq

\* error_lines[:3]
FirstN(seq, n) == IF Len(seq) <= n THEN seq ELSE SubSeq(seq, 1, n)

\* sep.join(lines): one line, the separator between the words of one line
\* and the words of the next
RECURSIVE join(_, _)
join(sep, lines) ==
    IF lines = <<>> THEN <<>>
    ELSE IF Len(lines) = 1 THEN lines[1]
    ELSE lines[1] \o <<sep>> \o join(sep, Tail(lines))

\* faulty variant: the total is 0 when the output does not give it
total_or_zero(total_match, applied) ==
    IF total_match # <<>> THEN int(total_match[1]) ELSE 0

\* total = int(total_match.group(1)) if total_match else applied
total_or(total_match, applied) ==
    IF total_match # <<>> THEN int(total_match[1]) ELSE applied

\* faulty variant: the test for the error markers is missing
HasErrorMarker_always(out) == TRUE

\* "ERROR" in output or "Failed" in output
HasErrorMarker(out) == \E k \in 1..Len(out) : Range(out[k]) \cap {"ERROR", "Failed"} # {}

\* validate_preset, from "output = result.stdout + result.stderr" on
validate_preset(out) ==
    LET match == re_search(AppliedPattern, out)
        total_match == re_search(TotalPattern, out)
    IN IF match # <<>>
       THEN [success |-> TRUE,
             applied |-> int(match[1]),
             total |-> total_or(total_match, int(match[1])),
             error |-> <<>>]
       ELSE IF HasErrorMarker(out)
       THEN [success |-> FALSE, applied |-> 0, total |-> 0,
             error |-> << join("; ", FirstN(LinesOf(out, {"ERROR", "Failed"}), 3)) >>]
       ELSE [success |-> FALSE, applied |-> 0, total |-> 0,
             error |-> Text("No output from plugparams")]

\* for idx, preset_path in enumerate(presets, 1):
Validate_iterate ==
    /\ pipeline = "validate" /\ pc = "loop" /\ i <= Len(subjects)
    /\ pc' = "call"
    /\ spc' = "run"
    /\ UNCHANGED <<pipeline, env, writer, backlog, discovered, dying, progress, output, skip_errors, subjects, i, results, files, sup,
                   clock, child, overran, stderr, returncode, output_files, ret,
                   spawns, returned, exit_code, reports, propagated>>

\* validate_preset(...): subprocess.run(..., timeout=30) and the parse of its
\* output, or one of the two except clauses
validate_preset_run ==
    /\ pipeline = "validate" /\ pc = "call" /\ spc = "run"
    /\ \/ \E out \in VerifierOutputs :
            /\ output' = out
            /\ ret' = << validate_preset(out) >>
            /\ sup' = [sup EXCEPT ![cur] = "Completed"]
            /\ spawns' = [spawns EXCEPT ![cur] = @ + 1]
            /\ returned' = [returned EXCEPT ![cur] = @ + 1]
            /\ spc' = "done"
            /\ UNCHANGED propagated
       \/ /\ ret' = << [success |-> FALSE, applied |-> 0, total |-> 0,
                        error |-> Text("Timeout (>30s)")] >>
          /\ sup' = [sup EXCEPT ![cur] = "TimedOut"]
          /\ spawns' = [spawns EXCEPT ![cur] = @ + 1]
          /\ returned' = [returned EXCEPT ![cur] = @ + 1]
          /\ spc' = "done"
          /\ UNCHANGED <<output, propagated>>
       \/ /\ \E kind \in ExcKinds :
               IF ExceptException(kind)
               THEN /\ ret' = << [success |-> FALSE, applied |-> 0,
                                  total |-> 0, error |-> Text(ExcText)] >>
                    /\ sup' = [sup EXCEPT ![cur] = "SpawnFailed"]
                    /\ returned' = [returned EXCEPT ![cur] = @ + 1]
                    /\ spc' = "done"
                    /\ UNCHANGED propagated
               ELSE /\ propagated' = TRUE
                    /\ spc' = "raised"
                    /\ UNCHANGED <<ret, sup, returned>>
          /\ UNCHANGED <<output, spawns>>
    /\ UNCHANGED <<pipeline, env, writer, backlog, discovered, dying, progress, skip_errors, subjects, i, pc, results, files,
                   clock, child, overran, stderr, returncode, output_files,
                   exit_code, reports>>

\* faulty variant: the counts of a failed preset are kept as well
Tally_every(res, name, r) ==
    IF r.success
    THEN [res EXCEPT !.success_count = @ + 1,
                     !.param_stats = Append(@, <<r.applied, r.total>>)]
    ELSE [res EXCEPT !.failed_presets = Append(@, <<name, r.error>>),
                     !.param_stats = Append(@, <<r.applied, r.total>>)]

\* if success: success_count += 1; param_stats.append(...)
\* else: failed_presets.append((preset_path.name, error))
Tally(res, name, r) ==
    IF r.success
    THEN [res EXCEPT !.success_count = @ + 1,
                     !.param_stats = Append(@, <<r.applied, r.total>>)]
    ELSE [res EXCEPT !.failed_presets = Append(@, <<name, r.error>>)]

\* main, from "if success:" to the end of the loop body
Validate_record ==
    /\ pipeline = "validate" /\ pc = "call" /\ spc = "done" /\ ret # <<>>
    /\ results' = Tally(results, cur, ret[1])
    /\ i' = NextSubject(i)
    /\ pc' = "loop"
    /\ spc' = "idle" /\ ret' = <<>> /\ output' = <<>>
    /\ UNCHANGED <<pipeline, env, writer, backlog, discovered, dying, progress, skip_errors, subjects, files, sup, clock, child,
                   overran, stderr, returncode, output_files, spawns, returned,
                   exit_code, reports, propagated>>

Validate_loop_end ==
    /\ pipeline = "validate" /\ pc = "loop" /\ i > Len(subjects)
    /\ pc' = "report"
    /\ UNCHANGED <<pipeline, env, writer, backlog, discovered, dying, progress, output, skip_errors, subjects, i, results, files, sup,
                   spc, clock, child, overran, stderr, returncode, output_files, ret,
                   spawns, returned, exit_code, reports, propagated>>

\* sum(p[k] for p in param_stats)
RECURSIVE SumAt(_, _)
SumAt(stats, k) ==
    IF stats = <<>> THEN 0 ELSE Head(stats)[k] + SumAt(Tail(stats), k)

\* if param_stats: avg_applied = ...; avg_total = ...: the two means as
\* fractions, <<>> when the line is not written
Averages(stats) ==
    IF stats # <<>>
    THEN << <<SumAt(stats, 1), Len(stats)>>, <<SumAt(stats, 2), Len(stats)>> >>
    ELSE <<>>

\* return 0 if len(failed_presets) == 0 else 1
Validate_exit_code(r) == IF Len(r.failed_presets) = 0 THEN 0 ELSE 1

\* the SUMMARY block of the report, and the return
Validate_report ==
    /\ pipeline = "validate" /\ pc = "report"
    /\ reports' = Append(reports,
                    [kind |-> "summary",
                     total |-> results.total,
                     successful |-> results.success_count,
                     failed |-> Len(results.failed_presets),
                     averages |-> Averages(results.param_stats)])
    /\ exit_code' = Validate_exit_code(results)
    /\ pc' = "exit"
    /\ UNCHANGED <<pipeline, env, writer, backlog, discovered, dying, progress, output, skip_errors, subjects, i, results, files, sup,
                   spc, clock, child, overran, stderr, returncode, output_files, ret,
                   spawns, returned, propagated>>

----------------------------------------------------------------------------

\* the accumulator each main builds before its loop
InitResults(p, n) ==
    IF p = "plugins"
    THEN [tested |-> <<>>, successful |-> EmptyDict, failed |-> EmptyDict]
    ELSE IF p = "presets"
    THEN [total |-> n, success |-> 0, failed |-> 0, failed_presets |-> <<>>]
    ELSE [total |-> n, success_count |-> 0, failed_presets |-> <<>>,
          param_stats |-> <<>>]

----------------------------------------------------------------------------
(* Start-up of the four scripts *)

\* The entries a directory may hold, by their names.  PresetNames and
\* PluginNames are in sorted order.  A directory may also hold the plugins
\* "my plugin.vst3", "my-plugin.vst3" and "my_plugin.vst3".
PresetNames == <<"lead.json", "my_benchmark_test.json", "pad.json", "reese.json", "sub.json">>
PluginNames == <<"Amp.vst3", "Bass.VST3", "comp.vst3", "delay.vst3", "eq.vst3">>

\* the place of a name in the order of str: capital letters come first
order(name) ==
    CASE name = "Amp.vst3" -> 1
      [] name = "Bass.VST3" -> 2
      [] name = "comp.vst3" -> 3
      [] name = "delay.vst3" -> 4
      [] name = "eq.vst3" -> 5
      [] name = "lead.json" -> 6
      [] name = "my plugin.vst3" -> 7
      [] name = "my-plugin.vst3" -> 8
      [] name = "my_benchmark_test.json" -> 9
      [] name = "my_plugin.vst3" -> 10
      [] name = "notes.txt" -> 11
      [] name = "pad.json" -> 12
      [] name = "preset_index.json" -> 13
      [] name = "readme.txt" -> 14
      [] name = "reese.json" -> 15
      [] name = "sub.json" -> 16

\* Path.suffix
suffix(name) ==
    CASE name \in {"Amp.vst3", "comp.vst3", "delay.vst3", "eq.vst3",
                    "my plugin.vst3", "my-plugin.vst3", "my_plugin.vst3"} -> ".vst3"
      [] name = "Bass.VST3" -> ".VST3"
      [] name \in {"notes.txt", "readme.txt"} -> ".txt"
      [] OTHER -> ".json"

\* str.lower
lower(text) == IF text = ".VST3" THEN ".vst3" ELSE text

\* a directory with n subjects, as the file system lists it: in no useful
\* order, other entries among them
Listing(p, n) ==
    IF p = "plugins"
    THEN <<"readme.txt">> \o [k \in 1..n |-> PluginNames[n + 1 - k]]
    ELSE [k \in 1..n |-> PresetNames[n + 1 - k]] \o <<"preset_index.json", "notes.txt">>

\* What a script finds when it starts: whether the plugin path, the subject
\* directory and the external binary exist, what the directory lists (found
\* of its entries are subjects), (run_measure) whether --out was given, and
\* how many pipe buffers of output the external binary writes at most: here
\* its output is short.
Environments(p) ==
    { e \in [plugin : BOOLEAN, dir : BOOLEAN, binary : BOOLEAN,
             found : 0..MaxSubjects, out : BOOLEAN, verbosity : {0},
             listing : { Listing(p, n) : n \in 0..MaxSubjects } \cup { <<>> }] :
        /\ ~e.dir => e.found = 0
        /\ e.listing = (IF e.dir /\ p # "measure" THEN Listing(p, e.found) ELSE <<>>)
        /\ p = "plugins" => (e.plugin /\ ~e.out)
        /\ p \in {"presets", "validate"} => ~e.out
        /\ p = "measure" => (e.dir /\ e.found = 0) }

\* faulty variant: the directory is taken in the order it is listed
sorted_aslisted(paths) == paths

\* sorted(paths), by insertion of the head into the sorted tail
RECURSIVE sorted(_)
sorted(paths) ==
    IF paths = <<>> THEN <<>>
    ELSE LET rest == sorted(Tail(paths))
             before == SelectSeq(rest, LAMBDA q : order(q) < order(Head(paths)))
             after == SelectSeq(rest, LAMBDA q : ~(order(q) < order(Head(paths))))
         IN before \o <<Head(paths)>> \o after

\* preset_dir.glob("*.json"): the entries the pattern matches, as listed
glob(listing) == SelectSeq(listing, LAMBDA q : suffix(q) = ".json")

\* find_vst3_plugins(vst3_dir): [] when the directory is missing, else the
\* sorted list of its entries with the suffix .vst3 in any case
find_vst3_plugins(e) ==
    IF ~e.dir THEN <<>>
    ELSE sorted(SelectSeq(e.listing, LAMBDA q : lower(suffix(q)) = ".vst3"))

\* find_presets(preset_dir, pattern): the sorted matches of the pattern
\* without preset_index.json
find_presets(e) ==
    SelectSeq(sorted(glob(e.listing)), LAMBDA q : q # "preset_index.json")

\* test_all_plugins.main up to the loop: the value it returns, -1 when it
\* goes on to the loop
Plugins_startup(e) ==
    IF ~e.binary THEN 1
    ELSE IF find_vst3_plugins(e) = <<>> THEN 1
    ELSE -1

\* test_preset_folder.main up to the loop
Presets_startup(e) ==
    IF ~e.plugin THEN 1
    ELSE IF ~e.dir THEN 1
    ELSE IF ~e.binary THEN 1
    ELSE IF find_presets(e) = <<>> THEN 1
    ELSE -1

\* faulty variant: the check of the discovered list is missing
Validate_startup_nocheck(e) ==
    IF ~e.plugin THEN 1
    ELSE IF ~e.dir THEN 1
    ELSE IF ~e.binary THEN 1
    ELSE -1

\* validate_presets.main up to the loop
Validate_startup(e) ==
    IF ~e.plugin THEN 1
    ELSE IF ~e.dir THEN 1
    ELSE IF ~e.binary THEN 1
    ELSE IF find_presets(e) = <<>> THEN 1
    ELSE -1

\* run_measure.check_prereqs: the code it exits with, -1 when it returns
check_prereqs(e) ==
    IF ~e.binary THEN 2
    ELSE IF ~e.plugin THEN 3
    ELSE -1

\* the rest of a batch main's start-up, `code` being what its checks gave:
\* return code, or build the accumulator over the discovered list and enter
\* the loop
Startup(code, list) ==
    /\ exit_code' = code
    /\ IF code = -1
       THEN /\ subjects' = Subjects(Len(list))     \* named by their places
            /\ discovered' = list
            /\ sup' = [s \in 1..Len(list) |-> "Pending"]
            /\ spawns' = [s \in 1..Len(list) |-> 0]
            /\ returned' = [s \in 1..Len(list) |-> 0]
            /\ returncode' = [s \in 1..Len(list) |-> -1]
            /\ results' = InitResults(pipeline, Len(list))
            /\ pc' = "loop"
       ELSE /\ pc' = "exit"
            /\ UNCHANGED <<discovered, subjects, sup, spawns, returned, returncode, results>>
    /\ UNCHANGED <<pipeline, env, writer, backlog, dying, progress, output, skip_errors, i, files, spc, clock, child,
                   overran, stderr, output_files, ret, reports, propagated>>

Plugins_start ==
    /\ pipeline = "plugins" /\ pc = "start"
    /\ Startup(Plugins_startup(env), find_vst3_plugins(env))

Presets_start ==
    /\ pipeline = "presets" /\ pc = "start"
    /\ Startup(Presets_startup(env), find_presets(env))

Validate_start ==
    /\ pipeline = "validate" /\ pc = "start"
    /\ Startup(Validate_startup(env), find_presets(env))

----------------------------------------------------------------------------
(* run_measure.py *)

\* the exit codes plugperf may end with
ChildCodes == 0..3

\* sys.exit(e.returncode or 1)
CalledProcessErrorExit(code) == IF code # 0 THEN code ELSE 1

\* main: check_prereqs(args)
Measure_start ==
    /\ pipeline = "measure" /\ pc = "start"
    /\ exit_code' = check_prereqs(env)
    /\ pc' = IF check_prereqs(env) = -1 THEN "call" ELSE "exit"
    /\ UNCHANGED <<pipeline, env, writer, backlog, discovered, dying, progress, output, skip_errors, subjects, i, results, files,
                   sup, spc, clock, child, overran, stderr, returncode,
                   output_files, ret, spawns, returned, reports, propagated>>

\* main from run_plugperf(args) on: subprocess.run(cmd, check=True) waits for
\* plugperf; a non-zero exit code is passed on, an exception of another class
\* ends the script with a traceback and exit code 1; with --out the file must
\* exist afterwards.
Measure_run ==
    /\ pipeline = "measure" /\ pc = "call"
    /\ \/ \E code \in ChildCodes, written \in BOOLEAN :
            exit_code' = IF code # 0 THEN CalledProcessErrorExit(code)
                         ELSE IF env.out /\ ~written THEN 4
                         ELSE 0
       \/ exit_code' = 1
    /\ pc' = "exit"
    /\ UNCHANGED <<pipeline, env, writer, backlog, discovered, dying, progress, output, skip_errors, subjects, i, results, files,
                   sup, spc, clock, child, overran, stderr, returncode,
                   output_files, ret, spawns, returned, reports, propagated>>

----------------------------------------------------------------------------

Pipelines == {"plugins", "presets", "validate", "measure"}

Init ==
    /\ pipeline \in Pipelines
    /\ env \in Environments(pipeline)
    /\ skip_errors \in (IF pipeline \in {"plugins", "presets"} THEN BOOLEAN ELSE {FALSE})
    /\ subjects = <<>>
    /\ sup = EmptyDict
    /\ spawns = EmptyDict
    /\ returned = EmptyDict
    /\ returncode = EmptyDict
    /\ results = InitResults(pipeline, 0)
    /\ i = 1
    /\ pc = "start"
    /\ files = EmptyDict
    /\ output_files = <<>>
    /\ spc = "idle"
    /\ clock = 0
    /\ child = "none"
    /\ overran = FALSE
    /\ stderr = ""
    /\ ret = <<>>
    /\ exit_code = -1
    /\ reports = <<>>
    /\ propagated = FALSE
    /\ progress = NoProgress
    /\ output = <<>>
    /\ dying = {}
    /\ writer = EmptyDict
    /\ backlog = 0
    /\ discovered = <<>>

Next ==
    \/ Plugins_start
    \/ Plugins_iterate
    \/ test_plugin_spawn
    \/ test_plugin_poll
    \/ test_plugin_sleep
    \/ child_exit
    \/ killed_child_ends
    \/ test_plugin_communicate
    \/ Plugins_record
    \/ Plugins_loop_end
    \/ Plugins_report
    \/ Presets_start
    \/ Presets_iterate
    \/ run_benchmark
    \/ Presets_record
    \/ Presets_loop_end
    \/ Presets_report
    \/ Validate_start
    \/ Validate_iterate
    \/ validate_preset_run
    \/ Validate_record
    \/ Validate_loop_end
    \/ Validate_report
    \/ Measure_start
    \/ Measure_run

Spec == Init /\ [][Next]_vars

----------------------------------------------------------------------------
(* The merge of the preset batch on its own: the batch has gone through its *)
(* loop, every run returned success, and the output files are in any state. *)

OtherHeader == <<"block_size", "median_us">>

MergeFiles ==
    { Missing, Unreadable, File(<<>>), File(<<Header>>), File(<<Header, GoodRow1>>),
      File(<<Header, GoodRow2, BadRow>>), File(<<OtherHeader, <<"64", "7">>>>) }

InitMerge ==
    /\ pipeline = "presets"
    /\ skip_errors \in BOOLEAN
    /\ \E n \in 1..MaxFiles :
          /\ env = [plugin |-> TRUE, dir |-> TRUE, binary |-> TRUE,
                    found |-> n, out |-> FALSE, verbosity |-> 0,
                    listing |-> Listing("presets", n)]
          /\ subjects = Subjects(n)
          /\ i = n + 1
          /\ output_files = Subjects(n)
          /\ files \in [1..n -> MergeFiles]
          /\ sup = [s \in 1..n |-> "Completed"]
          /\ spawns = [s \in 1..n |-> 1]
          /\ returned = [s \in 1..n |-> 1]
          /\ returncode = [s \in 1..n |-> 0]
          /\ results = [total |-> n, success |-> n, failed |-> 0,
                        failed_presets |-> <<>>]
    /\ pc = "report"
    /\ spc = "idle"
    /\ clock = 0
    /\ child = "none"
    /\ overran = FALSE
    /\ stderr = ""
    /\ ret = <<>>
    /\ exit_code = -1
    /\ reports = <<>>
    /\ propagated = FALSE
    /\ progress = NoProgress
    /\ output = <<>>
    /\ dying = {}
    /\ writer = EmptyDict
    /\ backlog = 0
    /\ discovered = find_presets(env)

NextMerge == Presets_report

SpecMerge == InitMerge /\ [][NextMerge]_vars

----------------------------------------------------------------------------
(* The loop head of the plugin batch on its own: a batch of n plugins is at *)
(* the head of iteration k, the k - 1 plugins before have succeeded.        *)

GoodFile == File(<<Header, GoodRow1, GoodRow2>>)

InitEta ==
    /\ pipeline = "plugins"
    /\ skip_errors \in BOOLEAN
    /\ \E n \in 1..MaxPlugins : \E k \in 1..n :
          /\ env = [plugin |-> TRUE, dir |-> TRUE, binary |-> TRUE,
                    found |-> n, out |-> FALSE, verbosity |-> 0,
                    listing |-> Listing("plugins", n)]
          /\ subjects = Subjects(n)
          /\ i = k
          /\ files = [p \in (IF k > 1 THEN Paths(find_vst3_plugins(env), k - 1) ELSE {}) |->
                         IF p = output_file(find_vst3_plugins(env)[k - 1])
                         THEN GoodFile ELSE Missing]
          /\ writer = [p \in (IF k > 1 THEN Paths(find_vst3_plugins(env), k - 1) ELSE {}) |->
                          IF p = output_file(find_vst3_plugins(env)[k - 1])
                          THEN k - 1 ELSE 0]
          /\ sup = [s \in 1..n |-> IF s < k THEN "Completed" ELSE "Pending"]
          /\ spawns = [s \in 1..n |-> IF s < k THEN 1 ELSE 0]
          /\ returned = [s \in 1..n |-> IF s < k THEN 1 ELSE 0]
          /\ returncode = [s \in 1..n |-> IF s < k THEN 0 ELSE -1]
          /\ results = [tested |-> Subjects(k - 1),
                        successful |-> [s \in 1..(k - 1) |-> load_results(GoodFile)],
                        failed |-> EmptyDict]
    /\ pc = "loop"
    /\ output_files = <<>>
    /\ spc = "idle"
    /\ clock = 0
    /\ child = "none"
    /\ overran = FALSE
    /\ stderr = ""
    /\ ret = <<>>
    /\ exit_code = -1
    /\ reports = <<>>
    /\ propagated = FALSE
    /\ progress = NoProgress
    /\ output = <<>>
    /\ dying = {}
    /\ backlog = 0
    /\ discovered = find_vst3_plugins(env)

NextEta == Plugins_iterate

SpecEta == InitEta /\ [][NextEta]_vars

----------------------------------------------------------------------------
(* The summary of an output file on its own: test_plugin has returned       *)
(* (True, None) for the one plugin of a batch, its output file is in any    *)
(* state.                                                                   *)

LoadRows == { Row(d, c) : d \in {"10", "20", "n/a"}, c \in {"2", "4"} }

\* the same columns in another order, a header without cv_pct, a row that is
\* too short
SwappedHeader == <<"cv_pct", "dsp_load_pct", "plugin_name", "format", "channels", "bit_depth">>

LoadFiles ==
    { Missing, Unreadable, File(<<>>),
      File(<<SwappedHeader, <<"4", "20", "P", "VST3", "2", "32f">>>>),
      File(<<SubSeq(Header, 1, 5), SubSeq(GoodRow1, 1, 5)>>),
      File(<<Header, SubSeq(GoodRow1, 1, 5)>>) }
    \cup { File(<<Header>> \o rows) :
              rows \in UNION { [1..m -> LoadRows] : m \in 0..MaxRows } }

InitLoad ==
    /\ pipeline = "plugins"
    /\ skip_errors \in BOOLEAN
    /\ env = [plugin |-> TRUE, dir |-> TRUE, binary |-> TRUE,
              found |-> 1, out |-> FALSE, verbosity |-> 0, listing |-> Listing("plugins", 1)]
    /\ subjects = Subjects(1)
    /\ i = 1
    /\ files \in [Paths(find_vst3_plugins(env), 1) -> LoadFiles]
    /\ writer = [p \in DOMAIN files |-> IF files[p].exists THEN 1 ELSE 0]
    /\ sup = [s \in {1} |-> "Completed"]
    /\ spawns = [s \in {1} |-> 1]
    /\ returned = [s \in {1} |-> 1]
    /\ returncode = [s \in {1} |-> 0]
    /\ results = [tested |-> Subjects(1), successful |-> EmptyDict,
                  failed |-> EmptyDict]
    /\ pc = "call"
    /\ spc = "done"
    /\ ret = << Classify(0, "") >>
    /\ child = "exited"
    /\ output_files = <<>>
    /\ clock = 0
    /\ overran = FALSE
    /\ stderr = ""
    /\ exit_code = -1
    /\ reports = <<>>
    /\ propagated = FALSE
    /\ progress = NoProgress
    /\ output = <<>>
    /\ dying = {}
    /\ backlog = 0
    /\ discovered = find_vst3_plugins(env)

NextLoad ==
    \/ Plugins_record
    \/ Plugins_loop_end
    \/ Plugins_report

SpecLoad == InitLoad /\ [][NextLoad]_vars

----------------------------------------------------------------------------
(* The end of a loop iteration of the plugin batch on its own: test_plugin  *)
(* has returned for plugin k of n; the plugins before it had any outcome    *)
(* after which the loop went on.                                            *)

MaxTested == 3          \* plugins of a batch whose loop end is looked at

\* What a call of test_plugin comes to: the final state of the call, the
\* exit code of the child, the value returned and the output file left.
Outcomes ==
    { [sup |-> "Completed", code |-> c, ret |-> Classify(c, t), file |-> f] :
         c \in 0..1, t \in StderrTexts, f \in WrittenFiles \cup {Missing} }
    \cup { [sup |-> "TimedOut", code |-> -1,
            ret |-> [ok |-> FALSE, err |-> "Timeout"], file |-> Missing],
          [sup |-> "SpawnFailed", code |-> -1,
            ret |-> [ok |-> FALSE, err |-> ExcText], file |-> Missing] }

\* the accumulator after the loop body has run for the plugins 1..k
RECURSIVE RecordAll(_, _)
RecordAll(hist, k) ==
    IF k = 0 THEN InitResults("plugins", 0)
    ELSE Record([RecordAll(hist, k - 1) EXCEPT !.tested = append(@, k)],
                k, hist[k].ret, load_results(hist[k].file))

InitStop ==
    /\ pipeline = "plugins"
    /\ skip_errors \in BOOLEAN
    /\ \E n \in 2..MaxTested : \E k \in 1..n : \E hist \in [1..k -> Outcomes] :
          /\ \A j \in 1..(k - 1) :
                ~Stops(hist[j].ret, load_results(hist[j].file), skip_errors)
          /\ env = [plugin |-> TRUE, dir |-> TRUE, binary |-> TRUE,
                    found |-> n, out |-> FALSE, verbosity |-> 0,
                    listing |-> Listing("plugins", n)]
          /\ subjects = Subjects(n)
          /\ i = k
          /\ files = [p \in Paths(find_vst3_plugins(env), k) |->
                         IF p = output_file(find_vst3_plugins(env)[k])
                         THEN hist[k].file ELSE Missing]
          /\ writer = [p \in Paths(find_vst3_plugins(env), k) |->
                          IF p = output_file(find_vst3_plugins(env)[k]) /\ hist[k].file.exists
                          THEN k ELSE 0]
          /\ sup = [s \in 1..n |-> IF s <= k THEN hist[s].sup ELSE "Pending"]
          /\ spawns = [s \in 1..n |->
                          IF s <= k /\ hist[s].sup # "SpawnFailed" THEN 1 ELSE 0]
          /\ returned = [s \in 1..n |-> IF s <= k THEN 1 ELSE 0]
          /\ returncode = [s \in 1..n |-> IF s <= k THEN hist[s].code ELSE -1]
          /\ results = [RecordAll(hist, k - 1) EXCEPT !.tested = append(@, k)]
          /\ ret = << hist[k].ret >>
          /\ child = (IF hist[k].sup = "Completed" THEN "exited"
                      ELSE IF hist[k].sup = "TimedOut" THEN "killed" ELSE "none")
          /\ stderr = (IF hist[k].ret.err \in StderrTexts THEN hist[k].ret.err ELSE "")
    /\ pc = "call"
    /\ spc = "done"
    /\ output_files = <<>>
    /\ clock = 0
    /\ overran = FALSE
    /\ exit_code = -1
    /\ reports = <<>>
    /\ propagated = FALSE
    /\ progress = NoProgress
    /\ output = <<>>
    /\ dying = {}
    /\ backlog = 0
    /\ discovered = find_vst3_plugins(env)

NextStop ==
    \/ Plugins_record
    \/ Plugins_loop_end
    \/ Plugins_report

SpecStop == InitStop /\ [][NextStop]_vars

----------------------------------------------------------------------------
(* Discovery on its own: a batch script starts in a directory that lists    *)
(* any of a few entries in any order.                                       *)

MaxEntries == 4         \* entries of a directory that is searched

DirNames(p) ==
    IF p = "plugins"
    THEN {"Amp.vst3", "Bass.VST3", "comp.vst3", "readme.txt", "preset_index.json"}
    ELSE {"lead.json", "pad.json", "preset_index.json", "reese.json", "notes.txt"}

\* the listings of a directory: no entry twice
Listings(p) ==
    UNION { { l \in [1..k -> DirNames(p)] :
                \A a, b \in 1..k : l[a] = l[b] => a = b } : k \in 0..MaxEntries }

\* the entries of a listing that are subjects of script p
SubjectNames(p, listing) ==
    IF p = "plugins"
    THEN Range(listing) \cap {"Amp.vst3", "Bass.VST3", "comp.vst3"}
    ELSE Range(listing) \cap {"lead.json", "pad.json", "reese.json"}

InitFind ==
    /\ pipeline \in {"plugins", "presets", "validate"}
    /\ skip_errors = FALSE
    /\ \E l \in Listings(pipeline) :
          env = [plugin |-> TRUE, dir |-> TRUE, binary |-> TRUE,
                 found |-> Cardinality(SubjectNames(pipeline, l)), out |-> FALSE, verbosity |-> 0,
                 listing |-> l]
    /\ subjects = <<>>
    /\ sup = EmptyDict
    /\ spawns = EmptyDict
    /\ returned = EmptyDict
    /\ returncode = EmptyDict
    /\ results = InitResults(pipeline, 0)
    /\ i = 1
    /\ pc = "start"
    /\ files = EmptyDict
    /\ output_files = <<>>
    /\ spc = "idle"
    /\ clock = 0
    /\ child = "none"
    /\ overran = FALSE
    /\ stderr = ""
    /\ ret = <<>>
    /\ exit_code = -1
    /\ reports = <<>>
    /\ propagated = FALSE
    /\ progress = NoProgress
    /\ output = <<>>
    /\ dying = {}
    /\ writer = EmptyDict
    /\ backlog = 0
    /\ discovered = <<>>

NextFind ==
    \/ Plugins_start
    \/ Presets_start
    \/ Validate_start

SpecFind == InitFind /\ [][NextFind]_vars

----------------------------------------------------------------------------
(* The plugin batch as a running program: main and test_plugin are one      *)
(* sequential thread that always goes on to its next statement; a child     *)
(* ends when it likes, or never.                                            *)

InitLive == pipeline = "plugins" /\ Init

\* the statements of main and test_plugin
Supervisor ==
    \/ Plugins_start
    \/ Plugins_iterate
    \/ test_plugin_spawn
    \/ test_plugin_poll
    \/ test_plugin_sleep
    \/ test_plugin_communicate
    \/ Plugins_record
    \/ Plugins_loop_end
    \/ Plugins_report

NextLive ==
    \/ Supervisor
    \/ child_exit
    \/ killed_child_ends

SpecLive == InitLive /\ [][NextLive]_vars /\ WF_vars(Supervisor)

----------------------------------------------------------------------------
(* The plugin batch over an output directory that is not new: mkdir(parents *)
(* =True, exist_ok=True) takes the directory as it is, with the output files *)
(* an earlier batch left in it.                                             *)

\* the plugins a listing holds, as discovery returns them
PluginsOf(l) == find_vst3_plugins([dir |-> TRUE, listing |-> l])

\* the output directory before the batch: files of an earlier batch at any
\* of the output paths of the plugins of listing l
OldDirs(l) == { [p \in S |-> GoodFile] : S \in SUBSET Paths(PluginsOf(l), 1) }

\* a plugin batch that starts in a directory listed as l, with the output
\* directory holding old and a measurement tool that writes up to v pipe
\* buffers of output
InitBatch(l, old, v) ==
    /\ pipeline = "plugins"
    /\ skip_errors \in BOOLEAN
    /\ env = [plugin |-> TRUE, dir |-> TRUE, binary |-> TRUE,
              found |-> Len(PluginsOf(l)), out |-> FALSE, verbosity |-> v,
              listing |-> l]
    /\ subjects = <<>>
    /\ sup = EmptyDict
    /\ spawns = EmptyDict
    /\ returned = EmptyDict
    /\ returncode = EmptyDict
    /\ results = InitResults("plugins", 0)
    /\ i = 1
    /\ pc = "start"
    /\ files = old
    /\ writer = [p \in DOMAIN old |-> 0]
    /\ output_files = <<>>
    /\ spc = "idle"
    /\ clock = 0
    /\ child = "none"
    /\ overran = FALSE
    /\ stderr = ""
    /\ ret = <<>>
    /\ exit_code = -1
    /\ reports = <<>>
    /\ propagated = FALSE
    /\ progress = NoProgress
    /\ output = <<>>
    /\ dying = {}
    /\ backlog = 0
    /\ discovered = <<>>

InitOld ==
    \E n \in 1..MaxSubjects :
        \E old \in OldDirs(Listing("plugins", n)) :
            InitBatch(Listing("plugins", n), old, 0)

NextOld ==
    \/ Supervisor
    \/ child_exit
    \/ killed_child_ends

SpecOld == InitOld /\ [][NextOld]_vars

----------------------------------------------------------------------------
(* The plugin batch over plugins with names of any kind, the output         *)
(* directory being new.                                                     *)

\* two plugins whose names differ in one character that is no letter
NameListings ==
    { <<"my_plugin.vst3", "readme.txt", "my plugin.vst3">>,
      <<"my-plugin.vst3", "my plugin.vst3">>,
      <<"my_plugin.vst3", "my-plugin.vst3">> }

InitNames ==
    \E l \in NameListings : InitBatch(l, EmptyDict, 0)

NextNames ==
    \/ Supervisor
    \/ child_exit
    \/ killed_child_ends

SpecNames == InitNames /\ [][NextNames]_vars

----------------------------------------------------------------------------
(* The plugin batch with a measurement tool that writes any amount to its   *)
(* standard output and standard error.                                      *)

MaxOutput == 2          \* pipe buffers of output a child writes

InitPipe ==
    \E n \in 1..MaxSubjects : InitBatch(Listing("plugins", n), EmptyDict, MaxOutput)

NextPipe ==
    \/ Supervisor
    \/ child_exit
    \/ killed_child_ends

SpecPipe == InitPipe /\ [][NextPipe]_vars

----------------------------------------------------------------------------
(* Properties *)

Final == { "Completed", "TimedOut", "SpawnFailed" }

\* the subjects whose loop iteration has finished
Finished == { s \in Range(subjects) : s < i \/ (s = i /\ pc \in {"report", "exit"}) }

\* the subjects the running script has recorded as failed
FailedSubjects ==
    IF pipeline = "plugins" THEN DOMAIN results.failed
    ELSE IF pipeline = "presets" THEN Range(results.failed_presets)
    ELSE { results.failed_presets[k][1] : k \in 1..Len(results.failed_presets) }

\* the subjects whose supervisor call has returned an outcome
Attempted == { s \in Range(subjects) : returned[s] > 0 }

\* success of the value a supervisor returned
RetOk(r) == IF pipeline = "validate" THEN r.success ELSE r.ok

AtReturn == pc = "call" /\ spc = "done" /\ ret # <<>>

\* the three batch scripts
Batch == pipeline \in {"plugins", "presets", "validate"}

\* the environment lets a batch script pass its start-up checks
StartupOk == env.plugin /\ env.dir /\ env.binary /\ env.found > 0

\* C1: in the plugin batch, every subject whose iteration has finished is a
\* key of exactly one of results['successful'] and results['failed'].
Thm_C1 ==
    pipeline = "plugins" =>
        \A s \in Finished :
            (s \in DOMAIN results.successful) # (s \in DOMAIN results.failed)

\* a batch of two finished subjects, one in each map, the failed one by parsing
Wit_C1 ==
    /\ pipeline = "plugins" /\ pc = "exit"
    /\ Len(results.tested) = 2
    /\ \E s, t \in Finished :
          /\ s \in DOMAIN results.successful
          /\ t \in DOMAIN results.failed
          /\ results.failed[t] = "Could not parse results"

\* C2: with the default policy no subject is spawned after a subject that
\* was recorded as failed, whatever the kind of the failure.
Cex_C2 ==
    (pipeline \in {"plugins", "presets"} /\ ~skip_errors) =>
        \A s \in Range(subjects) :
            spawns[s] > 0 => \A t \in FailedSubjects : ~(t < s)

\* C3: with skip_errors set, the plugin batch loop ends with as many entries
\* in results['tested'] as subjects were discovered.
Thm_C3 ==
    (pipeline = "plugins" /\ skip_errors /\ pc \in {"report", "exit"}) =>
        Len(results.tested) = Len(subjects)

\* the loop ended after a process-level failure of the first of two subjects
Wit_C3 ==
    /\ pipeline = "plugins" /\ skip_errors /\ pc = "report"
    /\ Len(subjects) = 2
    /\ 1 \in DOMAIN results.failed
    /\ results.failed[1] # "Could not parse results"

ClaimedSteps ==
    { <<"Pending", "Running">>, <<"Running", "Completed">>,
      <<"Running", "TimedOut">>, <<"Running", "SpawnFailed">> }

OneOutcomeEach ==
    \A s \in Range(subjects) :
        /\ spawns[s] <= 1 /\ returned[s] <= 1
        /\ (sup[s] \in Final) <=> (returned[s] = 1)
        /\ s \in Finished => returned[s] = 1

\* C5 as claimed: every call of test_plugin goes Pending -> Running -> one of
\* Completed, TimedOut, SpawnFailed, in that order only.
Cex_C5 ==
    [][pipeline = "plugins" =>
          \A s \in Range(subjects) :
              sup'[s] = sup[s] \/ <<sup[s], sup'[s]>> \in ClaimedSteps]_vars

\* C5 as amended: every call of test_plugin goes Pending -> Running -> one of
\* Completed, TimedOut, SpawnFailed, or straight from Pending to SpawnFailed
\* when the spawn itself raises; the three final states are never left, and
\* every subject is supervised at most once and yields exactly one outcome.
Thm_C5 ==
    /\ [][pipeline = "plugins" =>
            \A s \in Range(subjects) :
                sup'[s] = sup[s]
                \/ <<sup[s], sup'[s]>> \in ClaimedSteps \cup {<<"Pending", "SpawnFailed">>}]_vars
    /\ [](pipeline = "plugins" => OneOutcomeEach)

\* a spawn that raised: SpawnFailed without a child ever running, and the
\* batch is at its second subject
Wit_C5 ==
    /\ pipeline = "plugins" /\ Len(results.tested) = 2
    /\ sup[1] = "SpawnFailed" /\ spawns[1] = 0 /\ returned[1] = 1
    /\ sup[2] = "Running"

\* C6 as claimed: once the child is observed to have exited, test_plugin
\* returns (True, None) exactly if the exit code is 0, and for another exit
\* code a failure with the stderr text or "Unknown error".
Cex_C6 ==
    (pipeline = "plugins" /\ AtReturn /\ child = "exited") =>
        /\ (ret[1] = [ok |-> TRUE, err |-> "None"]) <=> (returncode[cur] = 0)
        /\ returncode[cur] # 0 =>
              ret[1] = [ok |-> FALSE,
                        err |-> IF stderr = "" THEN "Unknown error" ELSE stderr]

\* C6 as amended: once the child is observed to have exited and its output
\* has been read without an exception (the call ends Completed), test_plugin
\* returns (True, None) exactly if the exit code is 0, and for another exit
\* code a failure with the captured stderr text, or "Unknown error" when
\* that text is empty.
Thm_C6 ==
    (pipeline = "plugins" /\ AtReturn /\ sup[cur] = "Completed") =>
        /\ child = "exited"
        /\ (ret[1] = [ok |-> TRUE, err |-> "None"]) <=> (returncode[cur] = 0)
        /\ returncode[cur] # 0 =>
              ret[1] = [ok |-> FALSE,
                        err |-> IF stderr = "" THEN "Unknown error" ELSE stderr]

\* a non-zero exit with an empty stderr
Wit_C6 ==
    /\ pipeline = "plugins" /\ AtReturn /\ sup[cur] = "Completed"
    /\ returncode[cur] = 1 /\ stderr = ""
    /\ ret[1].err = "Unknown error"

\* C7: no exception raised while a child is spawned or supervised leaves
\* the supervisor; it is returned as a failed outcome of that subject.
Thm_C7 ==
    /\ ~propagated
    /\ spc # "raised"
    /\ (AtReturn /\ sup[cur] = "SpawnFailed") => ~RetOk(ret[1])
    /\ \A s \in Finished : sup[s] = "SpawnFailed" => s \in FailedSubjects

\* an exception while the exited child's output is read, in the plugin batch
Wit_C7 ==
    /\ pipeline = "plugins" /\ AtReturn
    /\ sup[cur] = "SpawnFailed" /\ child = "exited"
    /\ ret[1] = [ok |-> FALSE, err |-> ExcText]

\* the finished subjects whose output file is still what it was when the
\* subject was recorded: no child of a later subject has written it
Loaded ==
    { t \in Finished : OutputOf(t) \in DOMAIN files /\ writer[OutputOf(t)] \in {0, t} }

\* C8 as claimed: a subject whose process exited 0 and whose output file is
\* missing, without data rows or unparseable is in results['failed'] with
\* "Could not parse results", and not in results['successful'].
Cex_C8 ==
    pipeline = "plugins" =>
        \A s \in Loaded :
            (returncode[s] = 0 /\ load_results(files[OutputOf(s)]).none) =>
                /\ s \in DOMAIN results.failed
                /\ results.failed[s] = "Could not parse results"
                /\ s \notin DOMAIN results.successful

\* C8 as amended: a subject for which test_plugin returned success (its
\* process exited 0 and its output was read without an exception) and whose
\* output file is missing, without data rows or unparseable is in
\* results['failed'] with "Could not parse results", and not in
\* results['successful'].
Thm_C8 ==
    pipeline = "plugins" =>
        \A s \in Loaded :
            (sup[s] = "Completed" /\ returncode[s] = 0
             /\ (~files[OutputOf(s)].exists \/ Len(files[OutputOf(s)].rows) <= 1
                 \/ \E k \in 2..Len(files[OutputOf(s)].rows) :
                       \E c \in 5..6 :
                          files[OutputOf(s)].rows[k][c] \notin NumericTexts)) =>
                /\ s \in DOMAIN results.failed
                /\ results.failed[s] = "Could not parse results"
                /\ s \notin DOMAIN results.successful

\* a header-only file after exit code 0, recorded
Wit_C8 ==
    /\ pipeline = "plugins" /\ pc = "loop" /\ i = 2
    /\ sup[1] = "Completed" /\ returncode[1] = 0
    /\ OutputOf(1) \in DOMAIN files /\ files[OutputOf(1)] = File(<<Header>>)
    /\ 1 \in DOMAIN results.failed

Cex_C10 ==
    (Batch /\ StartupOk /\ pc = "exit") =>
        /\ \E k \in 1..Len(reports) :
              /\ reports[k].kind = "summary"
              /\ reports[k].total = Cardinality(Attempted)
        /\ pipeline = "presets" =>
              \E k \in 1..Len(reports) : reports[k].kind = "merged"

\* the environment holds one of the fatal start-up errors: the external
\* binary is not found, the subject directory is missing or holds no subject
FatalStartup == ~env.binary \/ ~env.dir \/ env.found = 0

\* C11: when the binary is not found, the subject directory is missing or
\* discovery yields no subject, a batch script goes from its start-up
\* straight to a non-zero exit: no child is ever spawned, no subject is
\* discovered into the loop and no report or merged dataset is written.
Thm_C11 ==
    (Batch /\ FatalStartup) =>
        /\ pc \in {"start", "exit"}
        /\ pc = "exit" => exit_code > 0
        /\ child = "none" /\ subjects = <<>>
        /\ \A s \in DOMAIN spawns : spawns[s] = 0
        /\ reports = <<>>

\* the validation sweep has exited because an existing directory holds no preset
Wit_C11 ==
    /\ pipeline = "validate" /\ pc = "exit" /\ exit_code = 1
    /\ env.plugin /\ env.binary /\ env.dir /\ env.found = 0
    /\ reports = <<>>

\* the start-up result of script p in environment e
StartupCode(p, e) ==
    IF p = "plugins" THEN Plugins_startup(e)
    ELSE IF p = "presets" THEN Presets_startup(e)
    ELSE IF p = "validate" THEN Validate_startup(e)
    ELSE check_prereqs(e)

\* C12: the exit code for a discovery failure and the exit code for a
\* missing external binary are non-zero, differ from each other and differ
\* from the 1 of a failed subject, so that the exit code alone tells which of
\* them happened (in run_measure: 2 only for the missing binary, 3 only for
\* the missing plugin path).
Cex_C12 ==
    pc = "exit" =>
        /\ Batch =>
              /\ FatalStartup => exit_code \notin {0, 1}
              /\ \A e1, e2 \in Environments(pipeline) :
                    ( /\ e1.plugin /\ e1.dir /\ e1.found > 0 /\ ~e1.binary
                      /\ e2.plugin /\ e2.binary /\ (~e2.dir \/ e2.found = 0) )
                        => StartupCode(pipeline, e1) # StartupCode(pipeline, e2)
        /\ pipeline = "measure" =>
              /\ (~env.binary \/ ~env.plugin) => exit_code \notin {0, 1}
              /\ exit_code = 2 => ~env.binary
              /\ exit_code = 3 => ~env.plugin

\* the output file p exists and holds at least one row at merge time
NonEmptyFile(p) ==
    files[p].exists /\ files[p].readable /\ files[p].rows # <<>>

\* merge_csv_results has returned and written the merged dataset
MergeWritten ==
    pipeline = "presets" /\ pc = "exit" /\ reports # <<>>
    /\ reports[1].kind = "merged"

\* the sum, over the files of the list that exist and are not empty, of the
\* number of rows after the header row
RECURSIVE DataRowCount(_)
DataRowCount(paths) ==
    IF paths = <<>> THEN 0
    ELSE (IF NonEmptyFile(Head(paths)) THEN Len(files[Head(paths)].rows) - 1 ELSE 0)
         + DataRowCount(Tail(paths))

\* C13: the merged dataset holds, after its header row, as many rows as the
\* files that exist and are not empty hold after their header rows; a file
\* that is absent adds no row and no error (the merge raises only if some
\* listed file exists and cannot be opened).
Thm_C13 ==
    /\ MergeWritten =>
          Len(reports[1].rows) =
              DataRowCount(output_files) + (IF reports[1].rows = <<>> THEN 0 ELSE 1)
    /\ (pipeline = "presets" /\ pc = "exit" /\ propagated) =>
          \E p \in Range(output_files) : files[p].exists /\ ~files[p].readable

\* a merge over an absent file, a zero-byte file and a file with two data rows
Wit_C13 ==
    /\ MergeWritten
    /\ output_files = <<1, 2, 3>>
    /\ files[1] = Missing /\ files[2] = File(<<>>) /\ Len(files[3].rows) = 3
    /\ Len(reports[1].rows) = 3

\* C14: a file that does not exist or that cannot be opened never makes the
\* merge raise; the merged dataset is still written from the other files.
Cex_C14 ==
    (pipeline = "presets" /\ pc = "exit") =>
        /\ ~propagated
        /\ MergeWritten

\* the subject identifier the merge is to give the rows of output file p
SubjectId(p) ==
    CASE p = 1 -> "lead"
      [] p = 2 -> "my_test"
      [] p = 3 -> "pad"
      [] p = 4 -> "reese"
      [] OTHER -> "sub"

\* the data rows of the files of the list, in list order and in file order,
\* each with its subject identifier and an empty category
RECURSIVE ExpectedDataRows(_)
ExpectedDataRows(paths) ==
    IF paths = <<>> THEN <<>>
    ELSE LET p == Head(paths)
         IN (IF NonEmptyFile(p)
             THEN [k \in 1..(Len(files[p].rows) - 1) |->
                      files[p].rows[k + 1] \o <<SubjectId(p), "">>]
             ELSE <<>>)
            \o ExpectedDataRows(Tail(paths))

\* the first file of the list that exists and is not empty
FirstNonEmpty(paths) ==
    paths[CHOOSE k \in 1..Len(paths) :
            NonEmptyFile(paths[k]) /\ \A j \in 1..(k - 1) : ~NonEmptyFile(paths[j])]

ExpectedHeader(paths) ==
    files[FirstNonEmpty(paths)].rows[1] \o <<"preset_name", "preset_category">>

\* C15 as claimed: every merged dataset starts with one header row, that of
\* the first existing non-empty file plus preset_name and preset_category,
\* followed by the data rows of the files in list and file order, each with
\* its subject identifier and an empty category.
Cex_C15 ==
    MergeWritten =>
        /\ reports[1].rows # <<>>
        /\ \E p \in Range(output_files) : NonEmptyFile(p)
        /\ reports[1].rows =
              <<ExpectedHeader(output_files)>> \o ExpectedDataRows(output_files)

\* C15 as amended: if some listed file exists and is not empty, the merged
\* dataset is the header row of the first such file plus preset_name and
\* preset_category, followed by the data rows of the files in list and file
\* order, each with its subject identifier and an empty category; if no
\* listed file exists and is not empty, the merged dataset has no row at all.
Thm_C15 ==
    MergeWritten =>
        IF \E p \in Range(output_files) : NonEmptyFile(p)
        THEN reports[1].rows =
                <<ExpectedHeader(output_files)>> \o ExpectedDataRows(output_files)
        ELSE reports[1].rows = <<>>

\* the header comes from the second file, whose name holds "_benchmark" twice,
\* and the third file has another header
Wit_C15 ==
    /\ MergeWritten
    /\ output_files = <<1, 2, 3>>
    /\ files[1] = File(<<>>) /\ files[2] = File(<<Header, GoodRow1>>)
    /\ files[3] = File(<<OtherHeader, <<"64", "7">>>>)
    /\ reports[1].rows =
          << Header \o <<"preset_name", "preset_category">>,
             GoodRow1 \o <<"my_test", "">>,
             <<"64", "7", "pad", "">> >>

\* the loop head of iteration i has computed its progress figures
AtLoopHead == pipeline = "plugins" /\ pc = "call" /\ spc = "popen"

\* C16: wherever the ETA is displayed it is the batch elapsed time divided by
\* the number of subjects completed so far (i - 1), times the number of
\* subjects not yet completed (len(plugins) - (i - 1)); stated for the loop
\* heads at which the wall clock has not gone back.
Cex_C16 ==
    (AtLoopHead /\ progress.shown /\ progress.elapsed >= 0) =>
        progress.eta_seconds[1] * (i - 1) =
            progress.elapsed * (Len(subjects) - (i - 1)) * progress.eta_seconds[2]

\* C17: at every loop head after the first subject the computed ETA is a
\* finite number that is not negative, and it is 0 at the loop head of the
\* last discovered subject.
Thm_C17 ==
    (AtLoopHead /\ i > 1) =>
        /\ progress.eta_seconds[2] > 0
        /\ progress.eta_seconds[1] >= 0
        /\ i = Len(subjects) => progress.eta_seconds[1] = 0

\* 3 s have passed at the head of the second of four plugins: 3 / 2 * 2
Wit_C17 ==
    /\ AtLoopHead /\ i = 2 /\ Len(subjects) = 4
    /\ progress.elapsed = 3
    /\ progress.eta_seconds = <<6, 2>>

\* the place of the column `name` in a header row that names it once
Place(header, name) == CHOOSE j \in 1..Len(header) : header[j] = name

\* the sum of the numbers in column j of the rows k, k + 1, ... of a file
RECURSIVE ColumnSum(_, _, _)
ColumnSum(rows, j, k) ==
    IF k > Len(rows) THEN 0
    ELSE float(rows[k][j]) + ColumnSum(rows, j, k + 1)

\* a file with a non-empty set of rows that give a number for dsp_load_pct
\* and for cv_pct, under a header that names every column load_results reads
UsableFile(f) ==
    /\ f.exists /\ f.readable /\ Len(f.rows) >= 2
    /\ Range(Header) \subseteq Range(f.rows[1])
    /\ \A k \in 2..Len(f.rows) :
          \A c \in {"dsp_load_pct", "cv_pct"} :
              /\ Place(f.rows[1], c) <= Len(f.rows[k])
              /\ f.rows[k][Place(f.rows[1], c)] \in NumericTexts

\* the fraction m is the number v
MeanIs(m, v) == m[2] > 0 /\ m[1] = v * m[2]

\* C18: for an output file with a non-empty set of usable rows load_results
\* returns a summary, and every summary it returns has buffer_count = the
\* number of data rows, mean_dsp_load = the sum of dsp_load_pct over all
\* rows divided by that number and mean_cv = the same for cv_pct; the rows
\* (10, 2) and (20, 4) give the means 15 and 3.
Thm_C18 ==
    pipeline = "plugins" =>
        \A s \in Loaded :
            /\ (sup[s] = "Completed" /\ returncode[s] = 0
                /\ UsableFile(files[OutputOf(s)]))
                  => s \in DOMAIN results.successful
            /\ s \in DOMAIN results.successful =>
                  LET rows == files[OutputOf(s)].rows
                      data == results.successful[s]
                  IN /\ UsableFile(files[OutputOf(s)])
                     /\ data.buffer_count = Len(rows) - 1
                     /\ data.mean_dsp_load =
                           << ColumnSum(rows, Place(rows[1], "dsp_load_pct"), 2),
                              Len(rows) - 1 >>
                     /\ data.mean_cv =
                           << ColumnSum(rows, Place(rows[1], "cv_pct"), 2),
                              Len(rows) - 1 >>
                     /\ rows = <<Header, GoodRow1, GoodRow2>> =>
                           /\ MeanIs(data.mean_dsp_load, 15)
                           /\ MeanIs(data.mean_cv, 3)

\* the rows (10, 2) and (20, 4) have been summarised
Wit_C18 ==
    /\ pipeline = "plugins" /\ pc = "exit"
    /\ files[OutputOf(1)] = File(<<Header, GoodRow1, GoodRow2>>)
    /\ 1 \in DOMAIN results.successful
    /\ results.successful[1].buffer_count = 2
    /\ results.successful[1].mean_dsp_load = <<30, 2>>
    /\ results.successful[1].mean_cv = <<6, 2>>


\* ---- the verifier's output and the validation result ----

\* validate_preset has returned from the parse of a completed verifier run
Parsed == pipeline = "validate" /\ AtReturn /\ sup[cur] = "Completed"

\* the places <<line, word>> of the output where "Applied <digits> parameters" stands
AppliedPlaces ==
    { pl \in (1..Len(output)) \X (1..9) :
        /\ pl[2] + 2 <= Len(output[pl[1]])
        /\ output[pl[1]][pl[2]] = "Applied"
        /\ output[pl[1]][pl[2] + 1] \in IntTexts
        /\ output[pl[1]][pl[2] + 2] = "parameters" }

\* the places where "Total parameters in preset: <digits>" stands
TotalPlaces ==
    { pl \in (1..Len(output)) \X (1..9) :
        /\ pl[2] + 4 <= Len(output[pl[1]])
        /\ SubSeq(output[pl[1]], pl[2], pl[2] + 3) = <<"Total", "parameters", "in", "preset:">>
        /\ output[pl[1]][pl[2] + 4] \in IntTexts }

\* pl comes before every other place of the set, in reading order
FirstOf(places, pl) ==
    /\ pl \in places
    /\ \A q \in places : pl[1] < q[1] \/ (pl[1] = q[1] /\ pl[2] <= q[2])

\* the number the words of the output give at word `offset` after the place
NumberAt(pl, offset) == int(output[pl[1]][pl[2] + offset])

\* C19: validation succeeds exactly when the combined output holds
\* "Applied <N> parameters"; the applied count is then the N of the first such
\* place, and the total is the M of the first "Total parameters in preset: <M>"
\* or, without one, the applied count; "Applied 12 parameters" with
\* "Total parameters in preset: 15" gives applied 12, total 15.
Thm_C19 ==
    Parsed =>
        /\ ret[1].success <=> AppliedPlaces # {}
        /\ ret[1].success =>
              /\ \E pl \in AppliedPlaces :
                    FirstOf(AppliedPlaces, pl) /\ ret[1].applied = NumberAt(pl, 1)
              /\ TotalPlaces # {} =>
                    \E pl \in TotalPlaces :
                       FirstOf(TotalPlaces, pl) /\ ret[1].total = NumberAt(pl, 4)
              /\ TotalPlaces = {} => ret[1].total = ret[1].applied
        /\ output = <<LineApplied("12"), LineTotal("15")>> =>
              /\ ret[1].success
              /\ ret[1].applied = 12
              /\ ret[1].total = 15

Wit_C19 ==
    /\ Parsed
    /\ output = <<LineOther, LineApplied("12")>>
    /\ ret[1].success /\ ret[1].applied = 12 /\ ret[1].total = 12

\* the output holds one of the error markers
ErrorMarked == \E k \in 1..Len(output) : \E w \in 1..Len(output[k]) : output[k][w] \in {"ERROR", "Failed"}

\* the case of C20: neither the success pattern nor an error marker
Unrecognised == Parsed /\ AppliedPlaces = {} /\ ~ErrorMarked

\* C20 as stated: the diagnostic of an unrecognised output reads "no output"
Cex_C20 ==
    Unrecognised =>
        ret[1] = [success |-> FALSE, applied |-> 0, total |-> 0, error |-> Text("no output")]

\* C20: an output with neither the success pattern nor an error marker is a
\* failure with applied 0, total 0 and the diagnostic "No output from plugparams".
Thm_C20 ==
    Unrecognised =>
        ret[1] = [success |-> FALSE, applied |-> 0, total |-> 0,
                  error |-> Text("No output from plugparams")]

Wit_C20 ==
    /\ Unrecognised
    /\ output = <<LineTotal("15")>>
    /\ ret[1].error = Text("No output from plugparams")


\* the lines of the output that hold an error marker, by their numbers
MarkedLines ==
    { k \in 1..Len(output) : \E w \in 1..Len(output[k]) : output[k][w] \in {"ERROR", "Failed"} }

\* line k is the n-th marked line of the output
NthMarked(k, n) ==
    k \in MarkedLines /\ Cardinality({ m \in MarkedLines : m < k }) = n - 1

\* the case of C21: no success pattern, and an error marker
ErrorReported == Parsed /\ AppliedPlaces = {} /\ MarkedLines # {}

\* C21: without the success pattern and with an error marker in the output,
\* validate_preset returns a failure whose diagnostic is made of the first
\* three lines that hold "ERROR" or "Failed", in the order of the output, "; "
\* between them, and of fewer lines only when fewer lines hold a marker.
Thm_C21 ==
    ErrorReported =>
        /\ ~ret[1].success /\ ret[1].applied = 0 /\ ret[1].total = 0
        /\ Len(ret[1].error) = 1
        /\ \E a \in MarkedLines :
              /\ NthMarked(a, 1)
              /\ Cardinality(MarkedLines) = 1 => ret[1].error[1] = output[a]
              /\ Cardinality(MarkedLines) = 2 =>
                    \E b \in MarkedLines :
                       /\ NthMarked(b, 2)
                       /\ ret[1].error[1] = output[a] \o <<"; ">> \o output[b]
              /\ Cardinality(MarkedLines) >= 3 =>
                    \E b, c \in MarkedLines :
                       /\ NthMarked(b, 2) /\ NthMarked(c, 3)
                       /\ ret[1].error[1] =
                             output[a] \o <<"; ">> \o output[b] \o <<"; ">> \o output[c]

\* five lines of the output, four of them marked: the diagnostic is the
\* first, the third and the fourth line
Wit_C21 ==
    /\ ErrorReported
    /\ output = <<LineERROR, LineOther, LineFailed, LineERROR, LineFailed>>
    /\ ret[1].error = << LineERROR \o <<"; ">> \o LineFailed \o <<"; ">> \o LineERROR >>


\* ---- the validation sweep ----

\* the loop of the validation sweep has ended
Swept == pipeline = "validate" /\ StartupOk /\ pc \in {"report", "exit"}

\* C22: the validation sweep gives every subject exactly one outcome and
\* never stops at a failure: after it success_count + the number of failed
\* presets = total = the number of subjects; only a successful outcome adds
\* its counts to the parameter statistics, and the averages of the report are
\* their sums over the number of successful subjects.
Thm_C22 ==
    /\ [](Swept =>
            /\ results.success_count + Len(results.failed_presets) = results.total
            /\ results.total = Len(subjects)
            /\ \A s \in Range(subjects) : returned[s] = 1
            /\ Len(results.param_stats) = results.success_count
            /\ Cardinality(FailedSubjects) = Len(results.failed_presets)
            /\ pc = "exit" =>
                  /\ reports[1].successful + reports[1].failed = Len(subjects)
                  /\ results.success_count = 0 => reports[1].averages = <<>>
                  /\ results.success_count > 0 =>
                        /\ reports[1].averages[1][2] = results.success_count
                        /\ reports[1].averages[2][2] = results.success_count)
    /\ [][(pipeline = "validate" /\ AtReturn) =>
            /\ i' = i + 1 /\ pc' = "loop"
            /\ IF ret[1].success
               THEN /\ results'.param_stats =
                          Append(results.param_stats, <<ret[1].applied, ret[1].total>>)
                    /\ results'.failed_presets = results.failed_presets
               ELSE /\ results'.param_stats = results.param_stats
                    /\ Len(results'.failed_presets) = Len(results.failed_presets) + 1]_vars
    /\ [][(pipeline = "validate" /\ pc = "report" /\ results.success_count > 0) =>
            /\ reports'[1].averages[1][1] = SumAt(results.param_stats, 1)
            /\ reports'[1].averages[2][1] = SumAt(results.param_stats, 2)]_vars

\* a sweep of two presets: the first fails, the second applies 12 of 15
\* parameters; the averages are 12/1 and 15/1
Wit_C22 ==
    /\ pipeline = "validate" /\ pc = "exit"
    /\ Len(subjects) = 2
    /\ FailedSubjects = {1}
    /\ results.param_stats = << <<12, 15>> >>
    /\ reports[1].averages = << <<12, 1>>, <<15, 1>> >>


\* ---- the children of the plugin batch ----

\* the subjects whose child is alive: the one test_plugin is polling, and
\* the killed ones that have not ended
LiveChildren ==
    (IF child = "alive" THEN {cur} ELSE {}) \cup dying

\* C23: at every moment of a plugin batch at most one child is alive, also
\* after a timeout kill when skip_errors lets the batch go on.
Cex_C23 ==
    pipeline = "plugins" => Cardinality(LiveChildren) <= 1

\* between the spawn of the current subject's child and the return of the
\* subject's outcome
Supervising ==
    /\ pipeline = "plugins" /\ pc = "call"
    /\ spawns[cur] = 1 /\ returned[cur] = 0

Discovered == Batch /\ pc # "start" /\ env.plugin /\ env.dir /\ env.binary

\* what a discovery by the running script over the listing l returns
Rediscovery(l) ==
    IF pipeline = "plugins"
    THEN find_vst3_plugins([env EXCEPT !.listing = l])
    ELSE find_presets([env EXCEPT !.listing = l])

\* C26: discovery returns the matching entries of the directory in sorted
\* order, none twice and never preset_index.json; a discovery over the same
\* entries, however the directory lists them, returns the same sequence.
Thm_C26 ==
    Discovered =>
        /\ Range(discovered) = SubjectNames(pipeline, env.listing)
        /\ \A j, k \in 1..Len(discovered) :
              j < k => order(discovered[j]) < order(discovered[k])
        /\ "preset_index.json" \notin Range(discovered)
        /\ Len(subjects) = Len(discovered)
        /\ \A l \in Listings(pipeline) :
              Range(l) = Range(env.listing) => Rediscovery(l) = discovered

\* a preset directory listed out of order, the manifest among the presets
Wit_C26 ==
    /\ pipeline = "presets" /\ pc = "loop"
    /\ env.listing = <<"reese.json", "preset_index.json", "lead.json", "pad.json">>
    /\ discovered = <<"lead.json", "pad.json", "reese.json">>

\* ---- the kill ----

\* the step sends the kill to the current child
Kills == child' = "killed" /\ child # "killed"

\* C27: test_plugin kills a child only in an iteration of the polling loop
\* that found it running later than the timeout, never a child it has seen
\* exited; a subject becomes TimedOut in the step that kills its child and in
\* no other, so each TimedOut outcome comes with exactly one kill.
Thm_C27 ==
    [][pipeline = "plugins" =>
          /\ Kills =>
                /\ pc = "call" /\ spc = "poll"
                /\ child = "alive"
                /\ clock > TimeoutTicks
                /\ sup[cur] = "Running" /\ sup'[cur] = "TimedOut"
                /\ dying' = dying \cup {cur}
                /\ ret' = << [ok |-> FALSE, err |-> "Timeout"] >>
          /\ \A s \in DOMAIN sup \cap DOMAIN sup' :
                /\ (sup[s] # "TimedOut" /\ sup'[s] = "TimedOut") => (Kills /\ s = cur)
                /\ sup[s] = "TimedOut" => (sup'[s] = "TimedOut" /\ ~(Kills /\ s = cur))
          /\ child = "exited" => child' \in {"exited", "none"}]_vars

\* the kill at the first poll later than the timeout
Wit_C27 ==
    /\ pipeline = "plugins" /\ AtReturn
    /\ child = "killed" /\ cur \in dying
    /\ clock = TimeoutTicks + 1
    /\ sup[cur] = "TimedOut"

\* ---- the total of the merge ----

\* the rows of the merged dataset after its header row
MergedDataRows ==
    IF reports[1].rows = <<>> THEN 0 ELSE Len(reports[1].rows) - 1

\* C28: the total that merge_csv_results reports is the number of data rows
\* of the merged dataset it wrote, for every list of files; it is 0 when no
\* file of the list exists or every file is empty.
Cex_C28 ==
    MergeWritten =>
        /\ reports[1].total = MergedDataRows
        /\ (\A p \in Range(output_files) : ~NonEmptyFile(p)) => reports[1].total = 0

\* ---- the order of the plugin batch ----

\* the names of the subjects in results['tested']
TestedNames == [k \in 1..Len(results.tested) |-> discovered[results.tested[k]]]

\* C29: at every point of the plugin batch, results['tested'] is the
\* discovered list up to the subject the loop is at, in discovery order,
\* without a gap and without a subject twice, and successful and failed
\* together hold as many subjects as iterations have finished.
Thm_C29 ==
    (pipeline = "plugins" /\ pc # "start") =>
        /\ Len(results.tested) <= Len(subjects)
        /\ results.tested = SubSeq(subjects, 1, Len(results.tested))
        /\ TestedNames = SubSeq(discovered, 1, Len(results.tested))
        /\ \A j, k \in 1..Len(results.tested) :
              j < k => order(TestedNames[j]) < order(TestedNames[k])
        /\ Len(results.tested) = Cardinality(Finished) + (IF pc = "call" THEN 1 ELSE 0)
        /\ Cardinality(DOMAIN results.successful) + Cardinality(DOMAIN results.failed)
              = Cardinality(Finished)
        /\ DOMAIN results.successful \cup DOMAIN results.failed = Finished

\* the second of two discovered plugins is being tested, the first is recorded
Wit_C29 ==
    /\ pipeline = "plugins" /\ pc = "call" /\ i = 2
    /\ discovered = <<"Amp.vst3", "Bass.VST3">>
    /\ TestedNames = <<"Amp.vst3", "Bass.VST3">>
    /\ Finished = {1}
    /\ 1 \in DOMAIN results.successful

\* ---- the early end of the plugin batch ----

\* the diagnostics test_plugin returns
ProcessLevel == { "Timeout", "Unknown error", ExcText } \cup (StderrTexts \ {""})

\* the loop of the plugin batch has ended before the end of the list
EndedEarly ==
    /\ pipeline = "plugins" /\ pc \in {"report", "exit"}
    /\ Len(results.tested) < Len(subjects)

\* C30: when the loop of the plugin batch ends with fewer subjects tested
\* than discovered, skip_errors is not set, the subject tested last is in
\* results['failed'] with a diagnostic of test_plugin, and no other subject
\* is recorded with one.
Thm_C30 ==
    EndedEarly =>
        LET last == results.tested[Len(results.tested)]
        IN /\ ~skip_errors
           /\ results.tested # <<>>
           /\ last \in DOMAIN results.failed
           /\ last \notin DOMAIN results.successful
           /\ results.failed[last] \in ProcessLevel
           /\ sup[last] # "Completed" \/ returncode[last] # 0
           /\ \A s \in DOMAIN results.failed :
                 s # last =>
                    /\ results.failed[s] = "Could not parse results"
                    /\ sup[s] = "Completed" /\ returncode[s] = 0

\* three plugins: the first is recorded with a parse failure, the second
\* exits with a non-zero code and ends the batch
Wit_C30 ==
    /\ EndedEarly /\ pc = "exit"
    /\ Len(subjects) = 3 /\ results.tested = <<1, 2>>
    /\ results.failed[1] = "Could not parse results"
    /\ results.failed[2] = "stderr text"
    /\ returncode[2] = 1


\* ---- the output files of the plugin batch ----

\* the subjects the step records as successful
NewlySuccessful == DOMAIN results'.successful \ DOMAIN results.successful

\* C31: within a plugin batch any two discovered plugins have different
\* output files; no child writes the file that the child of another subject
\* wrote, and no subject is summarised from the file that the child of
\* another subject wrote.
Cex_C31 ==
    /\ [](pipeline = "plugins" =>
            \A s, t \in DOMAIN discovered : s # t => OutputOf(s) # OutputOf(t))
    /\ [][pipeline = "plugins" =>
            \A p \in DOMAIN writer \cap DOMAIN writer' :
                writer'[p] # writer[p] => writer[p] = 0]_vars
    /\ [][(pipeline = "plugins" /\ AtReturn) =>
            \A s \in NewlySuccessful : writer[OutputOf(s)] \in {0, s}]_vars

\* C32: every subject that a plugin batch records as successful is
\* summarised from a file that its own child wrote in this batch, also when
\* the output directory held a file at that path before the batch.
Cex_C32 ==
    [][(pipeline = "plugins" /\ AtReturn) =>
          \A s \in NewlySuccessful : writer[OutputOf(s)] = s]_vars

\* ---- the pipes of the children ----

\* test_plugin is in its polling loop with a child that has not ended
Polling == pc = "call" /\ spc \in {"poll", "sleep"} /\ child = "alive"

\* C33: in a plugin batch a child that has not ended can end at every moment
\* of the polling loop, whatever amount of output it writes, so that no
\* child is timed out while it has output left that nobody reads.
Cex_C33 ==
    pipeline = "plugins" =>
        /\ Polling => ENABLED child_exit
        /\ (AtReturn /\ sup[cur] = "TimedOut") => backlog = 0


====
